---- MODULE Spec2Model ----
(***************************************************************************)
(* The multi-currency ledger and trade settlement of the paper-trading     *)
(* backend: the route handlers of backend/routes/trading.js (topup, buy,   *)
(* sell), backend/routes/currency.js (exchange) and backend/routes/auth.js *)
(* (register), running against the store behind                            *)
(* backend/database/DatabaseWrapper.js.                                     *)
(*                                                                         *)
(* Node runs the synchronous part of a handler or of a callback without    *)
(* interruption; every await and every store call is a point where another *)
(* request's step can run.  Each store statement is one atomic step of the *)
(* model, taken together with the callback it completes.                   *)
(*                                                                         *)
(* Numbers.  Crypto amounts are counted in units of 1e-8 coin (the dust    *)
(* threshold of the sell handler is then 1), unit prices and money in      *)
(* whole units per such amount unit.  average_buy_price and the exchange   *)
(* rate are quotients and are kept as reduced fractions <<num, den>>;      *)
(* floating-point rounding is not modelled.                                *)
(***************************************************************************)
EXTENDS Integers, Sequences, FiniteSets, TLC

(* ------------------------------ bounds --------------------------------- *)
\* requests accepted over a run (registration not counted)
MaxOps == 2
\* store statements or provider calls that fail over a run
MaxFaults == 1

\* read requests (GET /balance, GET /stats) accepted over a run
MaxReads == 1

\* concurrent requests in flight
Slots == {1, 2}
Users == {1}
\* the user ids a request's token can carry: 2 is the id of no user row
UserIds == {1, 2}
AmountInputs == {0, 1, 3}
MoneyInputs == {0, 2}
Prices == {1, 2}
\* currency codes as clients send them: any letter case, supported or not
CurrencyInputs == {"usd", "EUR", "xxx"}
SymbolInputs == {"btc"}
CoinIds == {"bitcoin"}

\* process.env.INITIAL_BALANCE, the funds a registration grants (10000 when
\* the variable is unset)
INITIAL_BALANCE == 5

(* --------------------------- program constants ------------------------- *)
\* trading.js: newAmount > 0.00000001, in amount units of 1e-8
DustThreshold == 1

\* currencyService: the catalogue, cut down to the two codes the model uses
SUPPORTED_CURRENCIES == {"usd", "eur"}

\* String.prototype.toLowerCase / toUpperCase on the strings of the model
toLowerCase(s) ==
  CASE s = "USD" -> "usd"
    [] s = "EUR" -> "eur"
    [] s = "XXX" -> "xxx"
    [] s = "BTC" -> "btc"
    [] OTHER -> s

toUpperCase(s) ==
  CASE s = "usd" -> "USD"
    [] s = "eur" -> "EUR"
    [] s = "xxx" -> "XXX"
    [] s = "btc" -> "BTC"
    [] OTHER -> s

isCurrencySupported(currency) == toLowerCase(currency) \in SUPPORTED_CURRENCIES

(* ------------------------------ fractions ------------------------------ *)
RECURSIVE GCD(_, _)
GCD(a, b) == IF b = 0 THEN a ELSE GCD(b, a % b)

\* the quotient n / d of two non-negative numbers, d > 0
Frac(n, d) == LET g == GCD(n, d) IN <<n \div g, d \div g>>

\* a sign-carrying quotient: the numerator may be negative
SFrac(n, d) ==
  IF n < 0 THEN <<-(Frac(-n, d)[1]), Frac(-n, d)[2]>> ELSE Frac(n, d)

FracAdd(a, b) == SFrac(a[1] * b[2] + b[1] * a[2], a[2] * b[2])
FracSub(a, b) == SFrac(a[1] * b[2] - b[1] * a[2], a[2] * b[2])
\* (a / b) * 100
FracPercent(a, b) == SFrac(a[1] * b[2] * 100, a[2] * b[1])

(* ------------------------------- state --------------------------------- *)
VARIABLES
  users,         \* table users: id -> [balance]
  balances,      \* table balances: <<user_id, currency>> -> amount
  portfolio,     \* table portfolio: <<user_id, symbol, currency>> -> row
  nextId,        \* AUTOINCREMENT counter of portfolio.id
  transactions,  \* table transactions, in insertion order
  req,           \* the requests in flight and the responses sent
  nops,          \* requests accepted so far
  nreads,        \* read requests accepted so far
  faults,        \* failures injected so far
  oracle,        \* what the price service answers per currency (0: it fails)
  memoryCache,   \* cacheService: key -> [value, expiresAt]
  now,           \* Date.now(), in ticks
  call,          \* the calls of getCryptoPrice in flight
  returned,      \* the calls of getCryptoPrice that have ended, in that order
  ratesCache,    \* currency.js ratesCache and ratesCacheTime: base -> [rates, time]
  rateCall,      \* the calls of getExchangeRates in flight
  rateReturned,  \* the calls of getExchangeRates that have ended, in that order
  API_PROVIDERS, \* callCount and lastCallTime per service module and provider
  sent,          \* the requests sent to each provider: time -> how many
  nfetch,        \* fetches begun so far
  wrapped,       \* the calls of the store wrapper's run, get and all with a callback
  adapter,       \* the store adapter of the process
  pool,          \* the connections of the adapter's pool: open transaction and its pending statements
  transactionConnection, \* MySQLDatabase.transactionConnection (0: null)
  committed,     \* the statements whose effects are committed in the store
  tx             \* the caller's view: between beginTransaction and commit or rollback, the statements issued since, those rolled back, the statements issued so far

vars ==
  <<users, balances, portfolio, nextId, transactions, req, nops, nreads, faults,
    oracle, memoryCache, now, call, returned,
    ratesCache, rateCall, rateReturned, API_PROVIDERS, sent, nfetch, wrapped, adapter, pool, transactionConnection, committed, tx>>

store == <<users, balances, portfolio, nextId, transactions>>

\* the state of the price service, which no step of a request handler writes
aux == <<oracle, memoryCache, now, call, returned,
        ratesCache, rateCall, rateReturned, API_PROVIDERS, sent, nfetch, wrapped, adapter, pool, transactionConnection, committed, tx>>

EmptyTable == [k \in {} |-> 0]

\* the connections of a pool
Connections == {1, 2}

\* the modules that keep an API_PROVIDERS table of their own
Services == {"cryptoAPI", "historicalPriceAPI"}
\* the providers whose requests are counted
LimitedProviders == {"coingecko", "binance"}
\* the ticks the clock advances over a run
MaxTime == 3

NoHolding == [id |-> 0, coin_id |-> "", amount |-> 0, average_buy_price |-> <<0, 1>>]

Idle ==
  [op |-> "none", pc |-> "idle", user |-> 0, coinId |-> "", symbol |-> "",
   currency |-> "", toCurrency |-> "", amount |-> 0, price |-> <<0, 1>>,
   total |-> 0, holding |-> NoHolding, holdDone |-> FALSE, logDone |-> FALSE,
   status |-> 0, error |-> "", required |-> 0, available |-> 0,
   applied |-> {}, cashBalances |-> EmptyTable, holdings |-> <<>>, index |-> 0,
   cryptoValueByCurrency |-> EmptyTable, investedByCurrency |-> EmptyTable,
   stats |-> EmptyTable, rows |-> <<>>]

\* a request occupies the lowest slot that holds no request in flight
Free(s) == req[s].pc \in {"idle", "done"}
FreeSlot(s) == Free(s) /\ \A t \in Slots : t < s => ~Free(t)

\* the response of a request that ends: the closure's locals are dropped
Respond(r, status, error) ==
  [Idle EXCEPT !.op = r.op, !.pc = "done", !.user = r.user,
               !.status = status, !.error = error, !.applied = r.applied]

CanFail == faults < MaxFaults

Init ==
  /\ users = EmptyTable
  /\ balances = EmptyTable
  /\ portfolio = EmptyTable
  /\ nextId = 1
  /\ transactions = <<>>
  /\ req = [s \in Slots |-> Idle]
  /\ nops = 0
  /\ nreads = 0
  /\ faults = 0
  /\ oracle = [c \in SUPPORTED_CURRENCIES |-> 0]
  /\ memoryCache = EmptyTable
  /\ now = 0
  /\ call = [i \in Slots |-> [pc |-> "idle"]]
  /\ returned = <<>>
  /\ ratesCache = EmptyTable
  /\ rateCall = [i \in Slots |-> [pc |-> "idle"]]
  /\ rateReturned = <<>>
  /\ API_PROVIDERS = [k \in Services \X LimitedProviders |-> [callCount |-> 0, lastCallTime |-> 0]]
  /\ sent = [p \in LimitedProviders |-> [t \in 0..MaxTime |-> 0]]
  /\ nfetch = 0
  /\ wrapped = [i \in Slots |-> [pc |-> "idle"]]
  /\ adapter = "sqlite"
  /\ pool = [c \in Connections |-> [inTransaction |-> FALSE, pending |-> {}]]
  /\ transactionConnection = 0
  /\ committed = {}
  /\ tx = [open |-> FALSE, issued |-> {}, rolledBack |-> {}, count |-> 0]

(* ------------------------------ the store ------------------------------ *)
\* INSERT INTO balances (user_id, currency, amount) VALUES (u, c, delta)
\*   ON CONFLICT(user_id, currency) DO UPDATE SET amount = amount + delta
UpsertBalance(tbl, u, c, delta) ==
  IF <<u, c>> \in DOMAIN tbl
    THEN [tbl EXCEPT ![<<u, c>>] = @ + delta]
    ELSE tbl @@ (<<u, c>> :> delta)

\* INSERT OR REPLACE: a record of the same user and type is overwritten
InsertOrReplaceTransaction(log, rec) ==
  IF \E i \in 1..Len(log) : log[i].user_id = rec.user_id /\ log[i].type = rec.type
    THEN [i \in 1..Len(log) |->
            IF log[i].user_id = rec.user_id /\ log[i].type = rec.type
              THEN rec ELSE log[i]]
    ELSE Append(log, rec)

\* INSERT INTO transactions (...) VALUES (...)
InsertTransaction(log, rec) == Append(log, rec)

\* a column no INSERT names holds NULL
NULL == "NULL"

\* the row an INSERT INTO transactions (user_id, symbol, coin_id, name, type,
\* amount, price, total, currency) creates: from_currency, to_currency and
\* exchange_rate are not among the columns and stay NULL
TransactionRow(u, symbol, coinId, type, amount, price, total, currency) ==
  [user_id |-> u, symbol |-> symbol, coin_id |-> coinId, type |-> type,
   amount |-> amount, price |-> price, total |-> total, currency |-> currency,
   from_currency |-> NULL, to_currency |-> NULL, exchange_rate |-> NULL]

\* the legacy balance counted in every currency
getBalanceInCurrencyAnyLegacy(u, currency) ==
  LET c == toLowerCase(currency)
      row == IF <<u, c>> \in DOMAIN balances THEN balances[<<u, c>>] ELSE 0
      legacy == IF u \in DOMAIN users THEN users[u].balance ELSE 0
  IN row + legacy

\* trading.js getBalanceInCurrency: the balances row, missing taken as 0,
\* plus users.balance when the currency is usd
getBalanceInCurrency(u, currency) ==
  LET c == toLowerCase(currency)
      row == IF <<u, c>> \in DOMAIN balances THEN balances[<<u, c>>] ELSE 0
      legacy == IF u \in DOMAIN users THEN users[u].balance ELSE 0
  IN IF c = "usd" THEN row + legacy ELSE row

(* ----------------------------- registration ---------------------------- *)
\* auth.js POST /register: the users row with the initial balance, then the
\* deposit record, whose failure nobody looks at
Register(u) ==
  /\ u \notin DOMAIN users
  /\ users' = users @@ (u :> [balance |-> INITIAL_BALANCE])
  /\ \E ok \in BOOLEAN :
       /\ ~ok => CanFail
       /\ faults' = IF ok THEN faults ELSE faults + 1
       /\ transactions' =
            IF ok
              THEN InsertTransaction(transactions,
                     TransactionRow(u, "USD", "usd", "deposit",
                                    INITIAL_BALANCE, <<1, 1>>, INITIAL_BALANCE, "usd"))
              ELSE transactions
  /\ UNCHANGED <<balances, portfolio, nextId, req, nops, nreads, aux>>

(* -------------------------------- topup -------------------------------- *)
\* trading.js POST /topup, lines 43-52: validation, then the two statements
\* are issued
TopupStart(s, u, amount, currency) ==
  /\ FreeSlot(s) /\ nops < MaxOps /\ u \in DOMAIN users
  /\ nops' = nops + 1
  /\ LET r == [Idle EXCEPT !.op = "deposit", !.user = u, !.amount = amount,
                           !.currency = currency]
     IN req' = [req EXCEPT ![s] =
          IF amount <= 0 THEN Respond(r, 400, "Invalid amount")
          ELSE IF ~isCurrencySupported(currency)
            THEN Respond(r, 400, "Currency not supported")
          ELSE [r EXCEPT !.pc = "credit"]]
  /\ UNCHANGED <<store, nreads, faults, aux>>

\* the currency code is stored as the client sent it
TopupCreditRaw(s) ==
  /\ req[s].op = "deposit" /\ req[s].pc = "credit"
  /\ faults' = faults
  /\ balances' = UpsertBalance(balances, req[s].user, req[s].currency, req[s].amount)
  /\ req' = [req EXCEPT ![s].pc = "log", ![s].applied = @ \cup {"balance"}]
  /\ UNCHANGED <<users, portfolio, nextId, transactions, nops, nreads, aux>>

\* lines 56-60: the upsert has no callback, an error is lost
TopupCredit(s) ==
  /\ req[s].op = "deposit" /\ req[s].pc = "credit"
  /\ \E ok \in BOOLEAN :
       /\ ~ok => CanFail
       /\ faults' = IF ok THEN faults ELSE faults + 1
       /\ balances' =
            IF ok THEN UpsertBalance(balances, req[s].user,
                                     toLowerCase(req[s].currency), req[s].amount)
                  ELSE balances
       /\ req' = [req EXCEPT ![s].pc = "log",
                             ![s].applied = IF ok THEN @ \cup {"balance"} ELSE @]
  /\ UNCHANGED <<users, portfolio, nextId, transactions, nops, nreads, aux>>

\* lines 62-80: the deposit record; on success the balance is read back
TopupLog(s) ==
  /\ req[s].op = "deposit" /\ req[s].pc = "log"
  /\ \E ok \in BOOLEAN :
       /\ ~ok => CanFail
       /\ faults' = IF ok THEN faults ELSE faults + 1
       /\ IF ok
            THEN /\ transactions' = InsertTransaction(transactions,
                        TransactionRow(req[s].user, toUpperCase(req[s].currency),
                                       toLowerCase(req[s].currency), "deposit",
                                       req[s].amount, <<1, 1>>, req[s].amount,
                                       toLowerCase(req[s].currency)))
                 /\ req' = [req EXCEPT ![s].pc = "readback",
                                       ![s].applied = @ \cup {"log"}]
            ELSE /\ transactions' = transactions
                 /\ req' = [req EXCEPT ![s] =
                              Respond(req[s], 500, "Transaction logging failed")]
  /\ UNCHANGED <<users, balances, portfolio, nextId, nops, nreads, aux>>

\* lines 71-78: getBalanceInCurrency, then the success response
TopupReadBack(s) ==
  /\ req[s].op = "deposit" /\ req[s].pc = "readback"
  /\ req' = [req EXCEPT ![s] =
       [Respond(req[s], 200, "") EXCEPT
          !.available = getBalanceInCurrency(req[s].user, req[s].currency)]]
  /\ UNCHANGED <<store, nops, nreads, faults, aux>>

(* --------------------------------- buy --------------------------------- *)
\* the average weighted by the amount after the update
applyBuyPostWeight(h, amount, price) ==
  LET newAmount == h.amount + amount
      n == h.average_buy_price[1]
      d == h.average_buy_price[2]
  IN [h EXCEPT !.amount = newAmount,
               !.average_buy_price = Frac(n * newAmount + price * amount * d,
                                          d * newAmount)]

\* trading.js POST /buy, lines 126-139: the holding after a buy into the row
\* that was read, the average weighted by the amount that was read
applyBuy(h, amount, price) ==
  LET newAmount == h.amount + amount
      n == h.average_buy_price[1]
      d == h.average_buy_price[2]
  IN [h EXCEPT !.amount = newAmount,
               !.average_buy_price = Frac(n * h.amount + price * amount * d,
                                          d * newAmount)]

\* SELECT * FROM portfolio WHERE user_id = ? AND symbol = ? AND currency = ?
SelectHolding(u, symbol, currency) ==
  IF <<u, symbol, currency>> \in DOMAIN portfolio
    THEN portfolio[<<u, symbol, currency>>]
    ELSE NoHolding

\* the row UPDATE/DELETE ... WHERE id = ? addresses, if it still exists
HasId(k, id) == k \in DOMAIN portfolio /\ portfolio[k].id = id

DeleteRow(tbl, k) == [x \in DOMAIN tbl \ {k} |-> tbl[x]]

\* lines 85-94: validation
BuyStart(s, u, coinId, symbol, amount, currency) ==
  /\ FreeSlot(s) /\ nops < MaxOps /\ u \in DOMAIN users
  /\ nops' = nops + 1
  /\ LET r == [Idle EXCEPT !.op = "buy", !.user = u, !.coinId = coinId,
                           !.symbol = symbol, !.amount = amount,
                           !.currency = currency]
     IN req' = [req EXCEPT ![s] =
          IF amount <= 0 THEN Respond(r, 400, "Invalid request parameters")
          ELSE IF ~isCurrencySupported(currency)
            THEN Respond(r, 400, "Currency not supported")
          ELSE [r EXCEPT !.pc = "price"]]
  /\ UNCHANGED <<store, nreads, faults, aux>>

\* a failed price fetch is swallowed and the purchase goes on at price 0
BuyPriceFallback(s) ==
  /\ req[s].op = "buy" /\ req[s].pc = "price"
  /\ \/ \E p \in Prices :
          /\ req' = [req EXCEPT ![s].price = <<p, 1>>,
                                ![s].total = req[s].amount * p,
                                ![s].pc = "balance"]
          /\ faults' = faults
     \/ /\ CanFail
        /\ faults' = faults + 1
        /\ req' = [req EXCEPT ![s].pc = "balance"]
  /\ UNCHANGED <<store, nops, nreads, aux>>

\* lines 96-100 and 175-177: await getCryptoPrice; a rejection is caught
BuyPrice(s) ==
  /\ req[s].op = "buy" /\ req[s].pc = "price"
  /\ \/ \E p \in Prices :
          /\ req' = [req EXCEPT ![s].price = <<p, 1>>,
                                ![s].total = req[s].amount * p,
                                ![s].pc = "balance"]
          /\ faults' = faults
     \/ /\ CanFail
        /\ faults' = faults + 1
        /\ req' = [req EXCEPT ![s] =
                     Respond(req[s], 500, "Failed to complete purchase")]
  /\ UNCHANGED <<store, nops, nreads, aux>>

\* the sufficiency check with <= in place of <
BuyCheckBalanceLe(s) ==
  /\ req[s].op = "buy" /\ req[s].pc = "balance"
  /\ \/ LET userBalance == getBalanceInCurrency(req[s].user, req[s].currency)
        IN /\ req' = [req EXCEPT ![s] =
                IF userBalance <= req[s].total
                  THEN [Respond(req[s], 400, "Insufficient balance") EXCEPT
                          !.required = req[s].total, !.available = userBalance]
                  ELSE [req[s] EXCEPT !.pc = "debit"]]
           /\ faults' = faults
     \/ /\ CanFail
        /\ faults' = faults + 1
        /\ req' = [req EXCEPT ![s] = Respond(req[s], 500, "Database error")]
  /\ UNCHANGED <<store, nops, nreads, aux>>

\* lines 103-115: getBalanceInCurrency and the sufficiency check
BuyCheckBalance(s) ==
  /\ req[s].op = "buy" /\ req[s].pc = "balance"
  /\ \/ LET userBalance == getBalanceInCurrency(req[s].user, req[s].currency)
        IN /\ req' = [req EXCEPT ![s] =
                IF userBalance < req[s].total
                  THEN [Respond(req[s], 400, "Insufficient balance") EXCEPT
                          !.required = req[s].total, !.available = userBalance]
                  ELSE [req[s] EXCEPT !.pc = "debit"]]
           /\ faults' = faults
     \/ /\ CanFail
        /\ faults' = faults + 1
        /\ req' = [req EXCEPT ![s] = Respond(req[s], 500, "Database error")]
  /\ UNCHANGED <<store, nops, nreads, aux>>

\* lines 119-124: the debit upsert has no callback, an error is lost
BuyDebit(s) ==
  /\ req[s].op = "buy" /\ req[s].pc = "debit"
  /\ \E ok \in BOOLEAN :
       /\ ~ok => CanFail
       /\ faults' = IF ok THEN faults ELSE faults + 1
       /\ balances' =
            IF ok THEN UpsertBalance(balances, req[s].user,
                                     toLowerCase(req[s].currency), -req[s].total)
                  ELSE balances
       /\ req' = [req EXCEPT ![s].pc = "holding",
                             ![s].applied = IF ok THEN @ \cup {"balance"} ELSE @]
  /\ UNCHANGED <<users, portfolio, nextId, transactions, nops, nreads, aux>>

\* lines 127-130: the SELECT of the holding; its error is not looked at, a
\* failed read leaves `holding` undefined
BuyGetHolding(s) ==
  /\ req[s].op = "buy" /\ req[s].pc = "holding"
  /\ \E ok \in BOOLEAN :
       /\ ~ok => CanFail
       /\ faults' = IF ok THEN faults ELSE faults + 1
       /\ req' = [req EXCEPT ![s].pc = "write",
                             ![s].holding =
                               IF ok THEN SelectHolding(req[s].user,
                                            toUpperCase(req[s].symbol),
                                            toLowerCase(req[s].currency))
                                     ELSE NoHolding]
  /\ UNCHANGED <<store, nops, nreads, aux>>

\* a request ends when its last pending statement has completed
Settle(r) ==
  IF r.holdDone /\ r.logDone THEN Respond(r, r.status, r.error) ELSE r

\* lines 131-146: UPDATE of the row that was read, or INSERT of a new row;
\* neither statement has a callback
BuyWriteHolding(s) ==
  LET r == req[s]
      k == <<r.user, toUpperCase(r.symbol), toLowerCase(r.currency)>>
      h == r.holding
  IN
  /\ r.op = "buy" /\ r.pc = "write" /\ ~r.holdDone
  /\ \E ok \in BOOLEAN :
       /\ ~ok => CanFail
       /\ faults' = IF ok THEN faults ELSE faults + 1
       /\ LET hit == IF h.id # 0 THEN HasId(k, h.id) ELSE k \notin DOMAIN portfolio
              done == ok /\ hit
          IN /\ portfolio' =
                  IF ~done THEN portfolio
                  ELSE IF h.id # 0
                    THEN [portfolio EXCEPT ![k] =
                            [@ EXCEPT
                               !.amount = applyBuy(h, r.amount, r.price[1]).amount,
                               !.average_buy_price =
                                 applyBuy(h, r.amount, r.price[1]).average_buy_price]]
                    ELSE portfolio @@
                           (k :> [id |-> nextId, coin_id |-> r.coinId,
                                  amount |-> r.amount,
                                  average_buy_price |-> r.price])
             /\ nextId' = IF done /\ h.id = 0 THEN nextId + 1 ELSE nextId
             /\ req' = [req EXCEPT ![s] =
                  Settle([r EXCEPT !.holdDone = TRUE, !.holding = NoHolding,
                                   !.applied = IF done THEN @ \cup {"holding"} ELSE @])]
  /\ UNCHANGED <<users, balances, transactions, nops, nreads, aux>>

\* lines 150-172: the buy record; its callback sends the response
BuyLog(s) ==
  LET r == req[s] IN
  /\ r.op = "buy" /\ r.pc = "write" /\ ~r.logDone
  /\ \E ok \in BOOLEAN :
       /\ ~ok => CanFail
       /\ faults' = IF ok THEN faults ELSE faults + 1
       /\ transactions' =
            IF ok THEN InsertTransaction(transactions,
                         TransactionRow(r.user, toUpperCase(r.symbol), r.coinId,
                                        "buy", r.amount, r.price, r.total,
                                        toLowerCase(r.currency)))
                  ELSE transactions
       /\ req' = [req EXCEPT ![s] =
            Settle([r EXCEPT !.logDone = TRUE,
                             !.status = IF ok THEN 200 ELSE 500,
                             !.error = IF ok THEN "" ELSE "Transaction logging failed",
                             !.applied = IF ok THEN @ \cup {"log"} ELSE @])]
  /\ UNCHANGED <<users, balances, portfolio, nextId, nops, nreads, aux>>

(* --------------------------------- sell -------------------------------- *)
\* trading.js POST /sell, lines 181-190: validation
SellStart(s, u, coinId, symbol, amount, currency) ==
  /\ FreeSlot(s) /\ nops < MaxOps /\ u \in DOMAIN users
  /\ nops' = nops + 1
  /\ LET r == [Idle EXCEPT !.op = "sell", !.user = u, !.coinId = coinId,
                           !.symbol = symbol, !.amount = amount,
                           !.currency = currency]
     IN req' = [req EXCEPT ![s] =
          IF amount <= 0 THEN Respond(r, 400, "Invalid request parameters")
          ELSE IF ~isCurrencySupported(currency)
            THEN Respond(r, 400, "Currency not supported")
          ELSE [r EXCEPT !.pc = "holding"]]
  /\ UNCHANGED <<store, nreads, faults, aux>>

\* lines 194-204: the SELECT of the holding and the holdings check
SellGetHolding(s) ==
  /\ req[s].op = "sell" /\ req[s].pc = "holding"
  /\ \/ LET holding == SelectHolding(req[s].user, toUpperCase(req[s].symbol),
                                     toLowerCase(req[s].currency))
        IN /\ req' = [req EXCEPT ![s] =
                IF holding.id = 0 \/ holding.amount < req[s].amount
                  THEN Respond(req[s], 400, "Insufficient holdings")
                  ELSE [req[s] EXCEPT !.pc = "price", !.holding = holding]]
           /\ faults' = faults
     \/ /\ CanFail
        /\ faults' = faults + 1
        /\ req' = [req EXCEPT ![s] = Respond(req[s], 500, "Database error")]
  /\ UNCHANGED <<store, nops, nreads, aux>>

\* lines 206-209: await getCryptoPrice inside the async callback; a rejection
\* rejects the callback's promise, DatabaseWrapper.get (lines 77-80) catches
\* it and calls the callback again with the error
SellPrice(s) ==
  /\ req[s].op = "sell" /\ req[s].pc = "price"
  /\ \/ \E p \in Prices :
          /\ req' = [req EXCEPT ![s].price = <<p, 1>>,
                                ![s].total = req[s].amount * p,
                                ![s].pc = "credit"]
          /\ faults' = faults
     \/ /\ CanFail
        /\ faults' = faults + 1
        /\ req' = [req EXCEPT ![s] = Respond(req[s], 500, "Database error")]
  /\ UNCHANGED <<store, nops, nreads, aux>>

\* lines 212-217: the credit upsert has no callback
SellCredit(s) ==
  /\ req[s].op = "sell" /\ req[s].pc = "credit"
  /\ \E ok \in BOOLEAN :
       /\ ~ok => CanFail
       /\ faults' = IF ok THEN faults ELSE faults + 1
       /\ balances' =
            IF ok THEN UpsertBalance(balances, req[s].user,
                                     toLowerCase(req[s].currency), req[s].total)
                  ELSE balances
       /\ req' = [req EXCEPT ![s].pc = "update",
                             ![s].applied = IF ok THEN @ \cup {"balance"} ELSE @]
  /\ UNCHANGED <<users, portfolio, nextId, transactions, nops, nreads, aux>>

\* the sell keeps the invested total and re-derives the average from it
applySellRebase(tbl, k, h, amount) ==
  LET newAmount == h.amount - amount
  IN IF newAmount > DustThreshold
       THEN [tbl EXCEPT ![k].amount = newAmount,
                        ![k].average_buy_price =
                          Frac(h.average_buy_price[1] * h.amount,
                               h.average_buy_price[2] * newAmount)]
       ELSE DeleteRow(tbl, k)

\* lines 219-229: the holding after a sell out of the row that was read:
\* the remaining amount, or no row when the rest is dust
applySell(tbl, k, h, amount) ==
  LET newAmount == h.amount - amount
  IN IF newAmount > DustThreshold
       THEN [tbl EXCEPT ![k].amount = newAmount]
       ELSE DeleteRow(tbl, k)

SellUpdateHolding(s) ==
  LET r == req[s]
      k == <<r.user, toUpperCase(r.symbol), toLowerCase(r.currency)>>
  IN
  /\ r.op = "sell" /\ r.pc = "update"
  /\ \E ok \in BOOLEAN :
       /\ ~ok => CanFail
       /\ faults' = IF ok THEN faults ELSE faults + 1
       /\ LET done == ok /\ HasId(k, r.holding.id)
          IN /\ portfolio' = IF done THEN applySell(portfolio, k, r.holding, r.amount)
                                     ELSE portfolio
             /\ req' = [req EXCEPT ![s].pc = "log", ![s].holding = NoHolding,
                                   ![s].applied = IF done THEN @ \cup {"holding"} ELSE @]
  /\ UNCHANGED <<users, balances, nextId, transactions, nops, nreads, aux>>

\* lines 231-253: the sell record; its callback sends the response
SellLog(s) ==
  LET r == req[s] IN
  /\ r.op = "sell" /\ r.pc = "log"
  /\ \E ok \in BOOLEAN :
       /\ ~ok => CanFail
       /\ faults' = IF ok THEN faults ELSE faults + 1
       /\ IF ok
            THEN /\ transactions' = InsertTransaction(transactions,
                        TransactionRow(r.user, toUpperCase(r.symbol), r.coinId,
                                       "sell", r.amount, r.price, r.total,
                                       toLowerCase(r.currency)))
                 /\ req' = [req EXCEPT ![s] =
                              Respond([r EXCEPT !.applied = @ \cup {"log"}], 200, "")]
            ELSE /\ transactions' = transactions
                 /\ req' = [req EXCEPT ![s] =
                              Respond(r, 500, "Transaction logging failed")]
  /\ UNCHANGED <<users, balances, portfolio, nextId, nops, nreads, aux>>

(* ------------------------------- exchange ------------------------------ *)
\* currency.js getExchangeRates('usd'), lines 44-52: the rates relative to
\* usd of the currencies the provider knows, here 1 usd = 2 eur
Rates == [usd |-> 1, eur |-> 2]

\* `${fromCurr.toUpperCase()}-${toCurr.toUpperCase()}`
PairSymbol(from, to) ==
  CASE from = "usd" /\ to = "usd" -> "USD-USD"
    [] from = "usd" /\ to = "eur" -> "USD-EUR"
    [] from = "eur" /\ to = "usd" -> "EUR-USD"
    [] from = "eur" /\ to = "eur" -> "EUR-EUR"
    [] OTHER -> "?"

\* currency.js POST /exchange, lines 120-128: validation
ExchangeStart(s, u, fromCurrency, toCurrency, amount) ==
  /\ FreeSlot(s) /\ nops < MaxOps /\ u \in DOMAIN users
  /\ nops' = nops + 1
  /\ LET r == [Idle EXCEPT !.op = "exchange", !.user = u, !.amount = amount,
                           !.currency = toLowerCase(fromCurrency),
                           !.toCurrency = toLowerCase(toCurrency)]
     IN req' = [req EXCEPT ![s] =
          IF amount <= 0 THEN Respond(r, 400, "Invalid request parameters")
          ELSE [r EXCEPT !.pc = "rates"]]
  /\ UNCHANGED <<store, nreads, faults, aux>>

\* lines 130-144 and 233-236: await getExchangeRates; the rate and the
\* converted amount
ExchangeRates(s) ==
  LET r == req[s] IN
  /\ r.op = "exchange" /\ r.pc = "rates"
  /\ \/ /\ faults' = faults
        /\ req' = [req EXCEPT ![s] =
             IF r.currency \notin DOMAIN Rates \/ r.toCurrency \notin DOMAIN Rates
               THEN Respond(r, 400, "Currency not supported")
               ELSE [r EXCEPT !.pc = "balance",
                              !.price = Frac(Rates[r.toCurrency], Rates[r.currency]),
                              !.total = (r.amount * Rates[r.toCurrency])
                                          \div Rates[r.currency]]]
     \/ /\ CanFail
        /\ faults' = faults + 1
        /\ req' = [req EXCEPT ![s] =
                     Respond(r, 500, "Failed to complete exchange")]
  /\ UNCHANGED <<store, nops, nreads, aux>>

\* lines 147-172: the balances row, the users row and the sufficiency check
ExchangeCheckBalance(s) ==
  LET r == req[s]
      row == IF <<r.user, r.currency>> \in DOMAIN balances
               THEN balances[<<r.user, r.currency>>] ELSE 0
      availableBalance ==
        IF r.currency = "usd" THEN row + users[r.user].balance ELSE row
  IN
  /\ r.op = "exchange" /\ r.pc = "balance"
  /\ \/ /\ faults' = faults
        /\ req' = [req EXCEPT ![s] =
             IF availableBalance < r.amount
               THEN [Respond(r, 400, "Insufficient balance") EXCEPT
                       !.required = r.amount, !.available = availableBalance]
               ELSE [r EXCEPT !.pc = "debit"]]
     \/ /\ CanFail
        /\ faults' = faults + 1
        /\ req' = [req EXCEPT ![s] = Respond(r, 500, "Database error")]
  /\ UNCHANGED <<store, nops, nreads, aux>>

\* lines 174-182: the debit of the source currency
ExchangeDebit(s) ==
  LET r == req[s] IN
  /\ r.op = "exchange" /\ r.pc = "debit"
  /\ \/ /\ faults' = faults
        /\ balances' = UpsertBalance(balances, r.user, r.currency, -r.amount)
        /\ req' = [req EXCEPT ![s].pc = "credit",
                              ![s].applied = @ \cup {"balance"}]
     \/ /\ CanFail
        /\ faults' = faults + 1
        /\ balances' = balances
        /\ req' = [req EXCEPT ![s] = Respond(r, 500, "Failed to deduct balance")]
  /\ UNCHANGED <<users, portfolio, nextId, transactions, nops, nreads, aux>>

\* the target currency is credited with the unconverted amount
ExchangeCreditUnconverted(s) ==
  LET r == req[s] IN
  /\ r.op = "exchange" /\ r.pc = "credit"
  /\ \/ /\ faults' = faults
        /\ balances' = UpsertBalance(balances, r.user, r.toCurrency, r.amount)
        /\ req' = [req EXCEPT ![s].pc = "log",
                              ![s].applied = @ \cup {"credit"}]
     \/ /\ CanFail
        /\ faults' = faults + 1
        /\ balances' = balances
        /\ req' = [req EXCEPT ![s] = Respond(r, 500, "Failed to add balance")]
  /\ UNCHANGED <<users, portfolio, nextId, transactions, nops, nreads, aux>>

\* lines 184-192: the credit of the target currency
ExchangeCredit(s) ==
  LET r == req[s] IN
  /\ r.op = "exchange" /\ r.pc = "credit"
  /\ \/ /\ faults' = faults
        /\ balances' = UpsertBalance(balances, r.user, r.toCurrency, r.total)
        /\ req' = [req EXCEPT ![s].pc = "log",
                              ![s].applied = @ \cup {"credit"}]
     \/ /\ CanFail
        /\ faults' = faults + 1
        /\ balances' = balances
        /\ req' = [req EXCEPT ![s] = Respond(r, 500, "Failed to add balance")]
  /\ UNCHANGED <<users, portfolio, nextId, transactions, nops, nreads, aux>>

\* lines 194-224: the exchange record; an error is printed and the success
\* response is sent all the same
ExchangeLog(s) ==
  LET r == req[s] IN
  /\ r.op = "exchange" /\ r.pc = "log"
  /\ \E ok \in BOOLEAN :
       /\ ~ok => CanFail
       /\ faults' = IF ok THEN faults ELSE faults + 1
       /\ transactions' =
            IF ok THEN InsertTransaction(transactions,
                         TransactionRow(r.user, PairSymbol(r.currency, r.toCurrency),
                                        "exchange", "exchange", r.amount, r.price,
                                        r.total, r.toCurrency))
                  ELSE transactions
       /\ req' = [req EXCEPT ![s] =
            Respond([r EXCEPT !.applied = IF ok THEN @ \cup {"log"} ELSE @], 200, "")]
  /\ UNCHANGED <<users, balances, portfolio, nextId, nops, nreads, aux>>

(* ----------------------------- read requests ---------------------------- *)
\* trading.js GET /balance, lines 31-40: getBalanceInCurrency for the user id
\* of the token, whatever that id is; the handler validates nothing
GetBalance(s, u, currency) ==
  /\ FreeSlot(s)
  /\ nreads' = nreads + 1
  /\ LET r == [Idle EXCEPT !.op = "balance", !.user = u] IN
     \/ /\ faults' = faults
        /\ req' = [req EXCEPT ![s] =
             [Respond(r, 200, "") EXCEPT
                !.currency = toLowerCase(currency),
                !.available = getBalanceInCurrency(u, currency)]]
     \/ /\ CanFail
        /\ faults' = faults + 1
        /\ req' = [req EXCEPT ![s] = Respond(r, 500, "Database error")]
  /\ UNCHANGED <<store, nops, aux>>

\* the currencies of the balances rows of user u
BalanceCurrencies(u) == {k[2] : k \in {x \in DOMAIN balances : x[1] = u}}

\* cashBalances without the legacy balance
CashBalancesRowsOnly(u) == [c \in BalanceCurrencies(u) |-> balances[<<u, c>>]]

\* trading.js GET /stats, lines 324-337: cashBalances from the balances rows
\* that were read, the legacy balance added to usd when it is positive
CashBalances(u) ==
  LET rows == [c \in BalanceCurrencies(u) |-> balances[<<u, c>>]]
      legacy == IF u \in DOMAIN users THEN users[u].balance ELSE 0
  IN IF legacy > 0
       THEN [c \in DOMAIN rows \cup {"usd"} |->
               IF c = "usd"
                 THEN (IF "usd" \in DOMAIN rows THEN rows["usd"] ELSE 0) + legacy
                 ELSE rows[c]]
       ELSE rows

\* SELECT * FROM portfolio WHERE user_id = ?: the rows in the order of their id
RECURSIVE HoldingRows(_, _)
HoldingRows(u, after) ==
  LET ks == {k \in DOMAIN portfolio : k[1] = u /\ portfolio[k].id > after}
  IN IF ks = {} THEN <<>>
     ELSE LET k == CHOOSE x \in ks : \A y \in ks : portfolio[x].id <= portfolio[y].id
          IN <<[symbol |-> k[2], currency |-> k[3], coin_id |-> portfolio[k].coin_id,
                amount |-> portfolio[k].amount,
                average_buy_price |-> portfolio[k].average_buy_price]>>
             \o HoldingRows(u, portfolio[k].id)

\* obj[key] || dflt
OrElse(obj, key, dflt) == IF key \in DOMAIN obj THEN obj[key] ELSE dflt

\* obj[key] = value
Put(obj, key, value) == [k \in DOMAIN obj \cup {key} |-> IF k = key THEN value ELSE obj[k]]

\* lines 367-396: statsByCurrency over the keys of cashBalances and of
\* cryptoValueByCurrency
StatsByCurrency(cash, crypto, invested) ==
  [c \in DOMAIN cash \cup DOMAIN crypto |->
     LET cashBal == OrElse(cash, c, 0)
         cryptoVal == OrElse(crypto, c, 0)
         inv == OrElse(invested, c, <<0, 1>>)
         profitLoss == FracSub(<<cryptoVal, 1>>, inv)
     IN [cash_balance |-> cashBal, crypto_value |-> cryptoVal,
         total_value |-> cashBal + cryptoVal, invested |-> inv,
         profit_loss |-> profitLoss,
         profit_loss_percent |->
           IF inv[1] > 0 THEN FracPercent(profitLoss, inv) ELSE <<0, 1>>]]

\* the success response of GET /stats
StatsRespond(r, cash, crypto, invested) ==
  [Respond(r, 200, "") EXCEPT !.stats = StatsByCurrency(cash, crypto, invested)]

\* the read folds the legacy balance into the usd row
StatsCashMigrate(s, u) ==
  /\ FreeSlot(s) /\ u \in DOMAIN users
  /\ nreads' = nreads + 1
  /\ faults' = faults
  /\ req' = [req EXCEPT ![s] =
       [Idle EXCEPT !.op = "stats", !.user = u, !.pc = "holdings",
                    !.cashBalances = CashBalances(u)]]
  /\ balances' = UpsertBalance(balances, u, "usd", users[u].balance)
  /\ users' = [users EXCEPT ![u].balance = 0]
  /\ UNCHANGED <<portfolio, nextId, transactions, nops, aux>>

\* lines 313-337: the balances rows and the users row are read
StatsCash(s, u) ==
  /\ FreeSlot(s) /\ u \in DOMAIN users
  /\ nreads' = nreads + 1
  /\ LET r == [Idle EXCEPT !.op = "stats", !.user = u] IN
     \/ /\ faults' = faults
        /\ req' = [req EXCEPT ![s] =
             [r EXCEPT !.pc = "holdings", !.cashBalances = CashBalances(u)]]
     \/ /\ CanFail
        /\ faults' = faults + 1
        /\ req' = [req EXCEPT ![s] = Respond(r, 500, "Database error")]
  /\ UNCHANGED <<store, nops, aux>>

\* lines 339-346: the holdings are read; with none the loop is empty and the
\* response follows at once
StatsHoldings(s) ==
  LET r == req[s] IN
  /\ r.op = "stats" /\ r.pc = "holdings"
  /\ \/ /\ faults' = faults
        /\ LET rows == HoldingRows(r.user, 0)
           IN req' = [req EXCEPT ![s] =
                IF rows = <<>>
                  THEN StatsRespond(r, r.cashBalances, EmptyTable, EmptyTable)
                  ELSE [r EXCEPT !.pc = "prices", !.holdings = rows, !.index = 1]]
     \/ /\ CanFail
        /\ faults' = faults + 1
        /\ req' = [req EXCEPT ![s] = Respond(r, 500, "Database error")]
  /\ UNCHANGED <<store, nops, nreads, aux>>

\* a rejected price call ends the request with an error
StatsPriceAbort(s, p) ==
  LET r == req[s]
      holding == r.holdings[r.index]
      currency == holding.currency
      invested == Frac(holding.amount * holding.average_buy_price[1],
                       holding.average_buy_price[2])
      inv == Put(r.investedByCurrency, currency,
                 FracAdd(OrElse(r.investedByCurrency, currency, <<0, 1>>), invested))
      crypto == Put(r.cryptoValueByCurrency, currency,
                    OrElse(r.cryptoValueByCurrency, currency, 0) + holding.amount * p)
  IN
  /\ r.op = "stats" /\ r.pc = "prices"
  /\ req' = [req EXCEPT ![s] =
       IF p = 0
         THEN Respond(r, 500, "Failed to calculate statistics")
         ELSE IF r.index = Len(r.holdings)
           THEN StatsRespond(r, r.cashBalances, crypto, inv)
           ELSE [r EXCEPT !.index = r.index + 1,
                          !.investedByCurrency = inv,
                          !.cryptoValueByCurrency = crypto]]
  /\ UNCHANGED <<store, nops, nreads, aux>>

\* lines 351-364: one turn of the loop over the holdings: invested grows, then the price is
\* awaited; a rejection is caught and the holding adds no crypto value.
\* After the last holding the response is computed and sent (lines 366-394).
\* p is the price the service answers with, 0 when the call is rejected
StatsPriceWith(s, p) ==
  LET r == req[s]
      holding == r.holdings[r.index]
      currency == holding.currency
      invested == Frac(holding.amount * holding.average_buy_price[1],
                       holding.average_buy_price[2])
      inv == Put(r.investedByCurrency, currency,
                 FracAdd(OrElse(r.investedByCurrency, currency, <<0, 1>>), invested))
      Finish(crypto) ==
        IF r.index = Len(r.holdings)
          THEN StatsRespond(r, r.cashBalances, crypto, inv)
          ELSE [r EXCEPT !.index = r.index + 1,
                         !.investedByCurrency = inv,
                         !.cryptoValueByCurrency = crypto]
  IN
  /\ r.op = "stats" /\ r.pc = "prices"
  /\ req' = [req EXCEPT ![s] =
       IF p > 0
         THEN Finish(Put(r.cryptoValueByCurrency, currency,
                         OrElse(r.cryptoValueByCurrency, currency, 0)
                           + holding.amount * p))
         ELSE Finish(r.cryptoValueByCurrency)]
  /\ UNCHANGED <<store, nops, nreads, aux>>

\* the loop turn with a price service that answers any price or fails
StatsPrice(s) ==
  \/ \E p \in Prices : faults' = faults /\ StatsPriceWith(s, p)
  \/ CanFail /\ faults' = faults + 1 /\ StatsPriceWith(s, 0)

\* the loop turn with a price service that answers as the oracle says: the
\* same answer to every call for a currency
StatsPriceOracle(s) ==
  /\ req[s].op = "stats" /\ req[s].pc = "prices"
  /\ faults' = faults
  /\ StatsPriceWith(s, oracle[req[s].holdings[req[s].index].currency])

\* amount * average_buy_price of row a is above that of row b
ValueAbove(a, b) ==
  a.amount * a.average_buy_price[1] * b.average_buy_price[2]
    > b.amount * b.average_buy_price[1] * a.average_buy_price[2]

\* ORDER BY amount * average_buy_price DESC over a set of portfolio keys; rows
\* of equal value come in the order of their id
RECURSIVE OrderByValueDesc(_)
OrderByValueDesc(ks) ==
  IF ks = {} THEN <<>>
  ELSE LET k == CHOOSE x \in ks : \A y \in ks \ {x} :
                  \/ ValueAbove(portfolio[x], portfolio[y])
                  \/ /\ ~ValueAbove(portfolio[y], portfolio[x])
                     /\ portfolio[x].id < portfolio[y].id
       IN <<[id |-> portfolio[k].id, user_id |-> k[1], symbol |-> k[2],
             currency |-> k[3], coin_id |-> portfolio[k].coin_id,
             amount |-> portfolio[k].amount,
             average_buy_price |-> portfolio[k].average_buy_price]>>
          \o OrderByValueDesc(ks \ {k})

\* trading.js GET /portfolio, lines 263-282: the rows of the user, of one
\* currency when the query names one ("" stands for no currency parameter)
GetPortfolio(s, u, currency) ==
  /\ FreeSlot(s)
  /\ nreads' = nreads + 1
  /\ LET r == [Idle EXCEPT !.op = "portfolio", !.user = u]
         ks == {k \in DOMAIN portfolio :
                  /\ k[1] = u
                  /\ currency # "" => k[3] = toLowerCase(currency)}
     IN
     \/ /\ faults' = faults
        /\ req' = [req EXCEPT ![s] =
             [Respond(r, 200, "") EXCEPT !.currency = currency,
                                         !.rows = OrderByValueDesc(ks)]]
     \/ /\ CanFail
        /\ faults' = faults + 1
        /\ req' = [req EXCEPT ![s] = Respond(r, 500, "Database error")]
  /\ UNCHANGED <<store, nops, aux>>

\* the records of every user pass
RECURSIVE NewestFirstOfAll(_, _, _)
NewestFirstOfAll(i, u, currency) ==
  IF i = 0 THEN <<>>
  ELSE IF currency # "" => transactions[i].currency = toLowerCase(currency)
         THEN <<transactions[i]>> \o NewestFirstOfAll(i - 1, u, currency)
         ELSE NewestFirstOfAll(i - 1, u, currency)

\* ORDER BY created_at DESC over the records i..1 of the log that pass the
\* filter: the latest record first
RECURSIVE NewestFirst(_, _, _)
NewestFirst(i, u, currency) ==
  IF i = 0 THEN <<>>
  ELSE IF /\ transactions[i].user_id = u
          /\ currency # "" => transactions[i].currency = toLowerCase(currency)
         THEN <<transactions[i]>> \o NewestFirst(i - 1, u, currency)
         ELSE NewestFirst(i - 1, u, currency)

\* trading.js GET /history, lines 285-307, with the default limit and offset,
\* which no log of the model exceeds
GetHistory(s, u, currency) ==
  /\ FreeSlot(s)
  /\ nreads' = nreads + 1
  /\ LET r == [Idle EXCEPT !.op = "history", !.user = u] IN
     \/ /\ faults' = faults
        /\ req' = [req EXCEPT ![s] =
             [Respond(r, 200, "") EXCEPT
                !.currency = currency,
                !.rows = NewestFirst(Len(transactions), u, currency)]]
     \/ /\ CanFail
        /\ faults' = faults + 1
        /\ req' = [req EXCEPT ![s] = Respond(r, 500, "Database error")]
  /\ UNCHANGED <<store, nops, aux>>

Next ==
  \/ \E u \in Users : Register(u)
  \/ \E s \in Slots, u \in Users, a \in MoneyInputs, c \in CurrencyInputs :
       TopupStart(s, u, a, c)
  \/ \E s \in Slots : TopupCredit(s)
  \/ \E s \in Slots : TopupLog(s)
  \/ \E s \in Slots : TopupReadBack(s)
  \/ \E s \in Slots, u \in Users, id \in CoinIds, sym \in SymbolInputs,
          a \in AmountInputs, c \in CurrencyInputs :
       BuyStart(s, u, id, sym, a, c)
  \/ \E s \in Slots : BuyPrice(s)
  \/ \E s \in Slots : BuyCheckBalance(s)
  \/ \E s \in Slots : BuyDebit(s)
  \/ \E s \in Slots : BuyGetHolding(s)
  \/ \E s \in Slots : BuyWriteHolding(s)
  \/ \E s \in Slots : BuyLog(s)
  \/ \E s \in Slots, u \in Users, id \in CoinIds, sym \in SymbolInputs,
          a \in AmountInputs, c \in CurrencyInputs :
       SellStart(s, u, id, sym, a, c)
  \/ \E s \in Slots : SellGetHolding(s)
  \/ \E s \in Slots : SellPrice(s)
  \/ \E s \in Slots : SellCredit(s)
  \/ \E s \in Slots : SellUpdateHolding(s)
  \/ \E s \in Slots : SellLog(s)
  \/ \E s \in Slots, u \in Users, f \in CurrencyInputs, t \in CurrencyInputs,
          a \in MoneyInputs :
       ExchangeStart(s, u, f, t, a)
  \/ \E s \in Slots : ExchangeRates(s)
  \/ \E s \in Slots : ExchangeCheckBalance(s)
  \/ \E s \in Slots : ExchangeDebit(s)
  \/ \E s \in Slots : ExchangeCredit(s)
  \/ \E s \in Slots : ExchangeLog(s)
  \/ \E s \in Slots, u \in UserIds, c \in CurrencyInputs :
       nreads < MaxReads /\ GetBalance(s, u, c)
  \/ \E s \in Slots, u \in Users : nreads < MaxReads /\ StatsCash(s, u)
  \/ \E s \in Slots : StatsHoldings(s)
  \/ \E s \in Slots : StatsPrice(s)

Spec == Init /\ [][Next]_vars

(* ------------------- reads of a store that is at rest ------------------- *)
\* a settled operation of the histories below
Deposit(u, amount, currency) ==
  [type |-> "deposit", user |-> u, amount |-> amount, price |-> 1, currency |-> currency]
Bought(u, amount, price, currency) ==
  [type |-> "buy", user |-> u, amount |-> amount, price |-> price, currency |-> currency]

\* the store after the operation op has settled in full on the store st: the
\* writes of topup (lines 56-65) and of buy (lines 119-157)
Settled(st, op) ==
  IF op.type = "deposit"
    THEN [st EXCEPT
            !.balances = UpsertBalance(@, op.user, op.currency, op.amount),
            !.transactions = InsertTransaction(@,
               TransactionRow(op.user, toUpperCase(op.currency), op.currency, "deposit",
                              op.amount, <<1, 1>>, op.amount, op.currency))]
    ELSE LET k == <<op.user, "BTC", op.currency>>
             total == op.amount * op.price
             old == IF k \in DOMAIN st.portfolio THEN st.portfolio[k] ELSE NoHolding
             new == applyBuy(old, op.amount, op.price)
         IN [balances |-> UpsertBalance(st.balances, op.user, op.currency, -total),
             portfolio |->
               IF k \in DOMAIN st.portfolio
                 THEN [st.portfolio EXCEPT ![k].amount = new.amount,
                                           ![k].average_buy_price = new.average_buy_price]
                 ELSE st.portfolio @@
                        (k :> [id |-> st.nextId, coin_id |-> "bitcoin",
                               amount |-> op.amount,
                               average_buy_price |-> <<op.price, 1>>]),
             nextId |-> IF k \in DOMAIN st.portfolio THEN st.nextId ELSE st.nextId + 1,
             transactions |-> InsertTransaction(st.transactions,
               TransactionRow(op.user, "BTC", "bitcoin", "buy", op.amount,
                              <<op.price, 1>>, total, op.currency))]

RECURSIVE Replay(_, _)
Replay(st, ops) ==
  IF ops = <<>> THEN st ELSE Replay(Settled(st, Head(ops)), Tail(ops))

\* histories of user 1, each affordable from the registration funds
Histories ==
  { <<>>,
    <<Bought(1, 1, 1, "usd")>>,
    <<Deposit(1, 2, "eur"), Bought(1, 1, 2, "eur")>>,
    <<Bought(1, 3, 1, "usd"), Deposit(1, 2, "eur"), Bought(1, 1, 1, "eur")>>,
    <<Bought(1, 1, 2, "usd"), Bought(1, 1, 1, "usd")>>,
    <<Bought(1, 1, 2, "usd"), Deposit(1, 2, "eur"), Bought(1, 1, 2, "eur")>> }

\* what a second registered user has done
OtherHistories == { <<>>, <<Bought(2, 1, 2, "usd")>> }

\* read requests accepted over a run of the reads at rest
MaxReadCalls == 3

\* the currency parameter of a list request: absent, or a code in any case
FilterInputs == {"", "usd", "EUR"}

\* two registered users after their histories, no request in flight, and a
\* price service that keeps its answers
ReadInit ==
  \E h \in Histories, g \in OtherHistories,
     o \in [SUPPORTED_CURRENCIES -> Prices \cup {0}] :
    LET st == Replay([balances |-> EmptyTable, portfolio |-> EmptyTable,
                      nextId |-> 1,
                      transactions |->
                        [u \in UserIds |->
                           TransactionRow(u, "USD", "usd", "deposit", INITIAL_BALANCE,
                                          <<1, 1>>, INITIAL_BALANCE, "usd")]],
                     h \o g)
    IN /\ users = [u \in UserIds |-> [balance |-> INITIAL_BALANCE]]
       /\ balances = st.balances
       /\ portfolio = st.portfolio
       /\ nextId = st.nextId
       /\ transactions = st.transactions
       /\ req = [s \in Slots |-> Idle]
       /\ nops = 0
       /\ nreads = 0
       /\ faults = 0
       /\ oracle = o
       /\ memoryCache = EmptyTable
       /\ now = 0
       /\ call = [i \in Slots |-> [pc |-> "idle"]]
       /\ returned = <<>>
       /\ ratesCache = EmptyTable
       /\ rateCall = [i \in Slots |-> [pc |-> "idle"]]
       /\ rateReturned = <<>>
       /\ API_PROVIDERS = [k \in Services \X LimitedProviders |-> [callCount |-> 0, lastCallTime |-> 0]]
       /\ sent = [p \in LimitedProviders |-> [t \in 0..MaxTime |-> 0]]
       /\ nfetch = 0
       /\ wrapped = [i \in Slots |-> [pc |-> "idle"]]
       /\ adapter = "sqlite"
       /\ pool = [c \in Connections |-> [inTransaction |-> FALSE, pending |-> {}]]
       /\ transactionConnection = 0
       /\ committed = {}
       /\ tx = [open |-> FALSE, issued |-> {}, rolledBack |-> {}, count |-> 0]

ReadNext ==
  \/ \E s \in Slots, u \in UserIds, c \in CurrencyInputs :
       nreads < MaxReadCalls /\ GetBalance(s, u, c)
  \/ \E s \in Slots, u \in UserIds : nreads < MaxReadCalls /\ StatsCash(s, u)
  \/ \E s \in Slots : StatsHoldings(s)
  \/ \E s \in Slots : StatsPriceOracle(s)
  \/ \E s \in Slots, u \in UserIds, c \in FilterInputs :
       nreads < MaxReadCalls /\ GetPortfolio(s, u, c)
  \/ \E s \in Slots, u \in UserIds, c \in FilterInputs :
       nreads < MaxReadCalls /\ GetHistory(s, u, c)

ReadSpec == ReadInit /\ [][ReadNext]_vars

(* --------------------------- GET /balances ----------------------------- *)
\* currency.js GET /balances, lines 260-271: the balances rows of the user
\* are read
GetAllBalances(s, u) ==
  /\ FreeSlot(s)
  /\ nreads' = nreads + 1
  /\ LET r == [Idle EXCEPT !.op = "balances", !.user = u] IN
     \/ /\ faults' = faults
        /\ req' = [req EXCEPT ![s] =
             [r EXCEPT !.pc = "legacy",
                       !.cashBalances =
                         [c \in BalanceCurrencies(u) |-> balances[<<u, c>>]]]]
     \/ /\ CanFail
        /\ faults' = faults + 1
        /\ req' = [req EXCEPT ![s] = Respond(r, 500, "Database error")]
  /\ UNCHANGED <<store, nops, aux>>

\* lines 283-297: allBalances from the rows that were read, the legacy
\* balance added to usd when it is positive; one entry per key of allBalances
FormattedBalances(rows, legacy) ==
  IF legacy > 0
    THEN [c \in DOMAIN rows \cup {"usd"} |->
            IF c = "usd"
              THEN (IF "usd" \in DOMAIN rows THEN rows["usd"] ELSE 0) + legacy
              ELSE rows[c]]
    ELSE rows

\* lines 273-302: the users row is read and the response sent
GetAllBalancesLegacy(s) ==
  LET r == req[s]
      legacy == IF r.user \in DOMAIN users THEN users[r.user].balance ELSE 0
  IN
  /\ r.op = "balances" /\ r.pc = "legacy"
  /\ \/ /\ faults' = faults
        /\ req' = [req EXCEPT ![s] =
             [Respond(r, 200, "") EXCEPT
                !.cashBalances = FormattedBalances(r.cashBalances, legacy)]]
     \/ /\ CanFail
        /\ faults' = faults + 1
        /\ req' = [req EXCEPT ![s] = Respond(r, 500, "Database error")]
  /\ UNCHANGED <<store, nops, nreads, aux>>

\* the inputs of the requests that fill and empty a balance
ListCodes == {"usd", "eur"}
ListAmounts == {2, 4}

ListNext ==
  \/ \E u \in Users : Register(u)
  \/ \E s \in Slots, u \in Users, a \in ListAmounts, c \in ListCodes :
       TopupStart(s, u, a, c)
  \/ \E s \in Slots : TopupCredit(s)
  \/ \E s \in Slots : TopupLog(s)
  \/ \E s \in Slots : TopupReadBack(s)
  \/ \E s \in Slots, u \in Users, f \in ListCodes, t \in ListCodes, a \in ListAmounts :
       ExchangeStart(s, u, f, t, a)
  \/ \E s \in Slots : ExchangeRates(s)
  \/ \E s \in Slots : ExchangeCheckBalance(s)
  \/ \E s \in Slots : ExchangeDebit(s)
  \/ \E s \in Slots : ExchangeCredit(s)
  \/ \E s \in Slots : ExchangeLog(s)
  \/ \E s \in Slots, u \in UserIds : nreads < MaxReads /\ GetAllBalances(s, u)
  \/ \E s \in Slots : GetAllBalancesLegacy(s)

ListSpec == Init /\ [][ListNext]_vars

(* ------------------- requests with codes in mixed case ----------------- *)
\* the codes each kind of request is sent with: every currency reaches the
\* store in both spellings, and so does the symbol
TopupCodes == {"usd", "EUR"}
BuyCodes == {"USD", "eur"}
SellCodes == {"usd", "EUR"}
ExchangeCodes == {"USD", "eur"}
SellSymbols == {"BTC"}
\* the amounts of an exchange: those a round trip needs in either direction
ExchangeAmounts == {1, 2, 4}

CaseNext ==
  \/ \E u \in Users : Register(u)
  \/ \E s \in Slots, u \in Users, a \in MoneyInputs, c \in TopupCodes :
       TopupStart(s, u, a, c)
  \/ \E s \in Slots : TopupCredit(s)
  \/ \E s \in Slots : TopupLog(s)
  \/ \E s \in Slots : TopupReadBack(s)
  \/ \E s \in Slots, u \in Users, id \in CoinIds, sym \in SymbolInputs,
          a \in AmountInputs, c \in BuyCodes :
       BuyStart(s, u, id, sym, a, c)
  \/ \E s \in Slots : BuyPrice(s)
  \/ \E s \in Slots : BuyCheckBalance(s)
  \/ \E s \in Slots : BuyDebit(s)
  \/ \E s \in Slots : BuyGetHolding(s)
  \/ \E s \in Slots : BuyWriteHolding(s)
  \/ \E s \in Slots : BuyLog(s)
  \/ \E s \in Slots, u \in Users, id \in CoinIds, sym \in SellSymbols,
          a \in AmountInputs, c \in SellCodes :
       SellStart(s, u, id, sym, a, c)
  \/ \E s \in Slots : SellGetHolding(s)
  \/ \E s \in Slots : SellPrice(s)
  \/ \E s \in Slots : SellCredit(s)
  \/ \E s \in Slots : SellUpdateHolding(s)
  \/ \E s \in Slots : SellLog(s)
  \/ \E s \in Slots, u \in Users, f \in ExchangeCodes, t \in ExchangeCodes,
          a \in ExchangeAmounts :
       ExchangeStart(s, u, f, t, a)
  \/ \E s \in Slots : ExchangeRates(s)
  \/ \E s \in Slots : ExchangeCheckBalance(s)
  \/ \E s \in Slots : ExchangeDebit(s)
  \/ \E s \in Slots : ExchangeCredit(s)
  \/ \E s \in Slots : ExchangeLog(s)

CaseSpec == Init /\ [][CaseNext]_vars

(* ------------------- settlements under fair scheduling ------------------ *)
LiveNext ==
  \/ \E u \in Users : Register(u)
  \/ \E s \in Slots, u \in Users, id \in CoinIds, sym \in SymbolInputs,
          a \in AmountInputs, c \in CurrencyInputs :
       BuyStart(s, u, id, sym, a, c)
  \/ \E s \in Slots : BuyPrice(s)
  \/ \E s \in Slots : BuyCheckBalance(s)
  \/ \E s \in Slots : BuyDebit(s)
  \/ \E s \in Slots : BuyGetHolding(s)
  \/ \E s \in Slots : BuyWriteHolding(s)
  \/ \E s \in Slots : BuyLog(s)
  \/ \E s \in Slots, u \in Users, id \in CoinIds, sym \in SymbolInputs,
          a \in AmountInputs, c \in CurrencyInputs :
       SellStart(s, u, id, sym, a, c)
  \/ \E s \in Slots : SellGetHolding(s)
  \/ \E s \in Slots : SellPrice(s)
  \/ \E s \in Slots : SellCredit(s)
  \/ \E s \in Slots : SellUpdateHolding(s)
  \/ \E s \in Slots : SellLog(s)
  \/ \E s \in Slots, u \in Users, f \in CurrencyInputs, t \in CurrencyInputs,
          a \in MoneyInputs :
       ExchangeStart(s, u, f, t, a)
  \/ \E s \in Slots : ExchangeRates(s)
  \/ \E s \in Slots : ExchangeCheckBalance(s)
  \/ \E s \in Slots : ExchangeDebit(s)
  \/ \E s \in Slots : ExchangeCredit(s)
  \/ \E s \in Slots : ExchangeLog(s)

\* the steps that are bound to happen once they can: a store statement
\* completes, and a price call of cryptoAPI.js ends within its axios timeout
\* of 5000 ms per provider (lines 240, 266, 296-300, 333), by an answer or by a
\* rejection.  The rate call of currency.js (lines 37-42) is made without a
\* timeout: nothing bounds the time ExchangeRates takes, so it is not among
\* them
Scheduled ==
  \E s \in Slots :
    \/ BuyPrice(s) \/ BuyCheckBalance(s) \/ BuyDebit(s) \/ BuyGetHolding(s)
    \/ BuyWriteHolding(s) \/ BuyLog(s)
    \/ SellGetHolding(s) \/ SellPrice(s) \/ SellCredit(s)
    \/ SellUpdateHolding(s) \/ SellLog(s)
    \/ ExchangeCheckBalance(s) \/ ExchangeDebit(s) \/ ExchangeCredit(s)
    \/ ExchangeLog(s)

LiveSpec == Init /\ [][LiveNext]_vars /\ WF_vars(Scheduled)

(* --------------------------- two users at once -------------------------- *)
\* the inputs of the two users' requests
IsoCodes == {"usd", "EUR"}
IsoAmounts == {1}
IsoMoney == {2}

\* both users have registered (auth.js POST /register): their users rows
\* and their registration deposits
IsoInit ==
  /\ users = [u \in UserIds |-> [balance |-> INITIAL_BALANCE]]
  /\ balances = EmptyTable
  /\ portfolio = EmptyTable
  /\ nextId = 1
  /\ transactions = [u \in UserIds |->
                       TransactionRow(u, "USD", "usd", "deposit", INITIAL_BALANCE,
                                      <<1, 1>>, INITIAL_BALANCE, "usd")]
  /\ req = [s \in Slots |-> Idle]
  /\ nops = 0
  /\ nreads = 0
  /\ faults = 0
  /\ oracle = [c \in SUPPORTED_CURRENCIES |-> 0]
  /\ memoryCache = EmptyTable
  /\ now = 0
  /\ call = [i \in Slots |-> [pc |-> "idle"]]
  /\ returned = <<>>
  /\ ratesCache = EmptyTable
  /\ rateCall = [i \in Slots |-> [pc |-> "idle"]]
  /\ rateReturned = <<>>
  /\ API_PROVIDERS = [k \in Services \X LimitedProviders |-> [callCount |-> 0, lastCallTime |-> 0]]
  /\ sent = [p \in LimitedProviders |-> [t \in 0..MaxTime |-> 0]]
  /\ nfetch = 0
  /\ wrapped = [i \in Slots |-> [pc |-> "idle"]]
  /\ adapter = "sqlite"
  /\ pool = [c \in Connections |-> [inTransaction |-> FALSE, pending |-> {}]]
  /\ transactionConnection = 0
  /\ committed = {}
  /\ tx = [open |-> FALSE, issued |-> {}, rolledBack |-> {}, count |-> 0]

IsoNext ==
  \/ \E s \in Slots, u \in UserIds, a \in IsoMoney, c \in IsoCodes :
       TopupStart(s, u, a, c)
  \/ \E s \in Slots : TopupCredit(s)
  \/ \E s \in Slots : TopupLog(s)
  \/ \E s \in Slots : TopupReadBack(s)
  \/ \E s \in Slots, u \in UserIds, id \in CoinIds, sym \in SymbolInputs,
          a \in IsoAmounts, c \in IsoCodes :
       BuyStart(s, u, id, sym, a, c)
  \/ \E s \in Slots : BuyPrice(s)
  \/ \E s \in Slots : BuyCheckBalance(s)
  \/ \E s \in Slots : BuyDebit(s)
  \/ \E s \in Slots : BuyGetHolding(s)
  \/ \E s \in Slots : BuyWriteHolding(s)
  \/ \E s \in Slots : BuyLog(s)
  \/ \E s \in Slots, u \in UserIds, id \in CoinIds, sym \in SymbolInputs,
          a \in IsoAmounts, c \in IsoCodes :
       SellStart(s, u, id, sym, a, c)
  \/ \E s \in Slots : SellGetHolding(s)
  \/ \E s \in Slots : SellPrice(s)
  \/ \E s \in Slots : SellCredit(s)
  \/ \E s \in Slots : SellUpdateHolding(s)
  \/ \E s \in Slots : SellLog(s)
  \/ \E s \in Slots, u \in UserIds, f \in IsoCodes, t \in IsoCodes, a \in IsoMoney :
       ExchangeStart(s, u, f, t, a)
  \/ \E s \in Slots : ExchangeRates(s)
  \/ \E s \in Slots : ExchangeCheckBalance(s)
  \/ \E s \in Slots : ExchangeDebit(s)
  \/ \E s \in Slots : ExchangeCredit(s)
  \/ \E s \in Slots : ExchangeLog(s)
  \/ \E s \in Slots, u \in UserIds, c \in IsoCodes :
       nreads < MaxReads /\ GetBalance(s, u, c)
  \/ \E s \in Slots, u \in UserIds : nreads < MaxReads /\ StatsCash(s, u)
  \/ \E s \in Slots : StatsHoldings(s)
  \/ \E s \in Slots : StatsPrice(s)
  \/ \E s \in Slots, u \in UserIds, c \in FilterInputs :
       nreads < MaxReads /\ GetPortfolio(s, u, c)
  \/ \E s \in Slots, u \in UserIds, c \in FilterInputs :
       nreads < MaxReads /\ GetHistory(s, u, c)

IsoSpec == IsoInit /\ [][IsoNext]_vars

(* --------------------------- the price service -------------------------- *)
\* calls of getCryptoPrice over a run
MaxCalls == 3
\* cacheService.js defaultTTL.cryptoPrices: 60 seconds, here in ticks of 30 s
cryptoPricesTTL == 2

\* the currencies getCryptoPrice is called with
PriceCurrencies == {"usd", "EUR"}

\* cryptoAPI.js line 360: the providers in the order they are tried
providers == <<"coingecko", "coincap", "binance", "cryptocompare">>

\* what a provider answers with for a unit price p: CoinGecko is asked for the
\* currency and names it (lines 243-248), the other three answer in usd
\* whatever the currency (lines 269-273, 304-308, 337-341)
ProviderData(provider, p, currency) ==
  [price |-> p,
   currency |-> IF provider = "coingecko" THEN toLowerCase(currency) ELSE "usd"]

\* no data: the call threw
NoData == [price |-> 0, currency |-> ""]

\* cacheService.js getFromMemory, lines 156-166: the entry unless it is
\* missing or past its expiry
Fresh(key) == key \in DOMAIN memoryCache /\ ~(now > memoryCache[key].expiresAt)

\* line 161: an entry found past its expiry is deleted
Evict(key) == [k \in DOMAIN memoryCache \ {key} |-> memoryCache[k]]

\* cacheService.js setInMemory, lines 168-172
setInMemory(key, value, ttl) ==
  [k \in DOMAIN memoryCache \cup {key} |->
     IF k = key THEN [value |-> value, expiresAt |-> now + ttl] ELSE memoryCache[k]]

\* the record of a call that has ended: its arguments, what it returned,
\* whether it went to the providers, when it began and how many calls had
\* ended by then, and the expiry of the cache entry it returned
Ended(c, data, hitExpiresAt) ==
  [key |-> c.key, data |-> data, fetched |-> c.pc = "fetch", began |-> c.began,
   after |-> c.after, expiresAt |-> hitExpiresAt]

\* cryptoAPI.js getCryptoPrice, lines 349-357 and 360-369: the cache lookup
\* and, on a miss, the request to the first provider; cache.get of the memory
\* strategy reads the map before the call yields
GetCryptoPrice(i, coinId, currency) ==
  LET key == <<coinId, currency>>
      c == [pc |-> "cache", key |-> key, began |-> now, after |-> Len(returned)]
  IN
  /\ call[i].pc = "idle"
  /\ Len(returned) + Cardinality({j \in Slots : call[j].pc # "idle"}) < MaxCalls
  /\ IF Fresh(key)
       THEN /\ returned' = Append(returned,
                             Ended(c, memoryCache[key].value, memoryCache[key].expiresAt))
            /\ UNCHANGED <<memoryCache, call>>
       ELSE /\ memoryCache' = Evict(key)
            /\ call' = [call EXCEPT ![i] = [c EXCEPT !.pc = "fetch"] @@ [provider |-> 1]]
            /\ returned' = returned
  /\ UNCHANGED <<store, req, nops, nreads, faults, oracle, now, ratesCache, rateCall, rateReturned, API_PROVIDERS, sent, nfetch, wrapped, adapter, pool, transactionConnection, committed, tx>>

\* lines 362-386: the provider answers; a price is cached under the key of
\* the call and returned
ProviderAnswers(i) ==
  LET c == call[i] IN
  /\ c.pc = "fetch"
  /\ \E p \in Prices :
       LET data == ProviderData(providers[c.provider], p, c.key[2])
       IN /\ memoryCache' = setInMemory(c.key, data, cryptoPricesTTL)
          /\ returned' = Append(returned, Ended(c, data, now + cryptoPricesTTL))
  /\ call' = [call EXCEPT ![i] = [pc |-> "idle"]]
  /\ UNCHANGED <<store, req, nops, nreads, faults, oracle, now, ratesCache, rateCall, rateReturned, API_PROVIDERS, sent, nfetch, wrapped, adapter, pool, transactionConnection, committed, tx>>

\* the call throws as soon as a provider fails
ProviderFailsThrows(i) ==
  LET c == call[i] IN
  /\ c.pc = "fetch"
  /\ call' = [call EXCEPT ![i] = [pc |-> "idle"]]
  /\ returned' = Append(returned, Ended(c, NoData, 0))
  /\ UNCHANGED <<store, req, nops, nreads, faults, oracle, ratesCache,
               rateCall, rateReturned, API_PROVIDERS, sent, nfetch, wrapped,
               adapter, pool, transactionConnection, committed, tx, memoryCache, now>>

\* lines 387-393: the provider is rate limited, fails, times out or has no
\* price: the next one is tried, and after the last one the call throws
ProviderFails(i) ==
  LET c == call[i] IN
  /\ c.pc = "fetch"
  /\ IF c.provider < Len(providers)
       THEN /\ call' = [call EXCEPT ![i].provider = c.provider + 1]
            /\ returned' = returned
       ELSE /\ call' = [call EXCEPT ![i] = [pc |-> "idle"]]
            /\ returned' = Append(returned, Ended(c, NoData, 0))
  /\ UNCHANGED <<store, req, nops, nreads, faults, oracle, memoryCache, now,
               ratesCache, rateCall, rateReturned, API_PROVIDERS, sent, nfetch, wrapped, adapter, pool, transactionConnection, committed, tx>>

\* time passes
Tick ==
  /\ now < MaxTime
  /\ now' = now + 1
  /\ UNCHANGED <<store, req, nops, nreads, faults, oracle, memoryCache, call, returned,
               ratesCache, rateCall, rateReturned, API_PROVIDERS, sent, nfetch, wrapped, adapter, pool, transactionConnection, committed, tx>>

PriceNext ==
  \/ \E i \in Slots, id \in CoinIds, c \in PriceCurrencies : GetCryptoPrice(i, id, c)
  \/ \E i \in Slots : ProviderAnswers(i)
  \/ \E i \in Slots : ProviderFails(i)
  \/ Tick

PriceSpec == Init /\ [][PriceNext]_vars

(* ------------------------ the exchange rate cache ----------------------- *)
\* calls of getExchangeRates over a run
MaxRateCalls == 3
\* currency.js line 15: 5 minutes, here in ticks of 150 s
RATES_CACHE_DURATION == 2

\* the base currencies getExchangeRates is called with: 'usd' by the
\* exchange (line 133), req.query.base by GET /rates (line 81)
RateBases == {"usd", "EUR"}

\* the quotes the provider may answer with
Quotes == {1, 2}

\* the statuses a failed provider call carries; 0: no response at all
FailureStatuses == {0, 429, 500}

\* lines 47-53: the rates of a quote relative to the base currency
RatesOf(quote, baseCurrency) == [quote |-> quote, base |-> baseCurrency]

\* valid up to and including the duration
StillValidInclusive(baseCurrency) ==
  /\ baseCurrency \in DOMAIN ratesCache
  /\ now - ratesCache[baseCurrency].time <= RATES_CACHE_DURATION

\* line 27: the cached rates are still valid
StillValid(baseCurrency) ==
  /\ baseCurrency \in DOMAIN ratesCache
  /\ now - ratesCache[baseCurrency].time < RATES_CACHE_DURATION

\* lines 55-56: ratesCache[baseCurrency] = rates; ratesCacheTime[baseCurrency]
\* = now, the time read when the call began
CacheRates(baseCurrency, rates, time) ==
  [b \in DOMAIN ratesCache \cup {baseCurrency} |->
     IF b = baseCurrency THEN [rates |-> rates, time |-> time] ELSE ratesCache[b]]

\* the record of a call that has ended: its base currency, how it ended
\* ("cached", "fetched", "stale" or "threw"), the rates it returned, the status
\* of the provider's failure, when it began and how many calls had ended by
\* then
RateEnded(c, outcome, rates, status) ==
  [base |-> c.base, outcome |-> outcome, rates |-> rates, status |-> status,
   began |-> c.began, after |-> c.after]

NoRates == [quote |-> 0, base |-> ""]

\* currency.js getExchangeRates, lines 22-42: the cache test and, when it
\* fails, the request to the provider
GetExchangeRates(i, base) ==
  LET baseCurrency == toLowerCase(base)
      c == [pc |-> "fetch", base |-> baseCurrency, began |-> now,
            after |-> Len(rateReturned)]
  IN
  /\ rateCall[i].pc = "idle"
  /\ Len(rateReturned) + Cardinality({j \in Slots : rateCall[j].pc # "idle"})
       < MaxRateCalls
  /\ IF StillValid(baseCurrency)
       THEN /\ rateReturned' = Append(rateReturned,
                 RateEnded(c, "cached", ratesCache[baseCurrency].rates, 0))
            /\ UNCHANGED <<ratesCache, rateCall>>
       ELSE /\ rateCall' = [rateCall EXCEPT ![i] = c]
            /\ UNCHANGED <<ratesCache, rateReturned>>
  /\ UNCHANGED <<store, req, nops, nreads, faults, oracle, memoryCache, call,
               returned, API_PROVIDERS, sent, nfetch, wrapped, adapter,
               pool, transactionConnection, committed, tx, now>>

\* lines 44-59: the provider answers; the rates are cached and returned
RatesAnswer(i) ==
  LET c == rateCall[i] IN
  /\ c.pc = "fetch"
  /\ \E q \in Quotes :
       /\ ratesCache' = CacheRates(c.base, RatesOf(q, c.base), c.began)
       /\ rateReturned' = Append(rateReturned,
                                 RateEnded(c, "fetched", RatesOf(q, c.base), 0))
  /\ rateCall' = [rateCall EXCEPT ![i] = [pc |-> "idle"]]
  /\ UNCHANGED <<store, req, nops, nreads, faults, oracle, memoryCache, call,
               returned, API_PROVIDERS, sent, nfetch, wrapped, adapter,
               pool, transactionConnection, committed, tx, now>>

\* lines 60-68: the provider call fails
RatesFail(i) ==
  LET c == rateCall[i] IN
  /\ c.pc = "fetch"
  /\ \E status \in FailureStatuses :
       rateReturned' = Append(rateReturned,
         IF status = 429 /\ c.base \in DOMAIN ratesCache
           THEN RateEnded(c, "stale", ratesCache[c.base].rates, status)
           ELSE RateEnded(c, "threw", NoRates, status))
  /\ rateCall' = [rateCall EXCEPT ![i] = [pc |-> "idle"]]
  /\ UNCHANGED <<store, req, nops, nreads, faults, oracle, memoryCache, call,
               returned, API_PROVIDERS, sent, nfetch, wrapped, adapter,
               pool, transactionConnection, committed, tx, ratesCache, now>>

RatesNext ==
  \/ \E i \in Slots, b \in RateBases : GetExchangeRates(i, b)
  \/ \E i \in Slots : RatesAnswer(i)
  \/ \E i \in Slots : RatesFail(i)
  \/ Tick

RatesSpec == Init /\ [][RatesNext]_vars

(* ------------------------- the provider rate limits --------------------- *)
\* fetches over a run
MaxFetches == 4

\* API_PROVIDERS[provider].rateLimit (cryptoAPI.js lines 7-36,
\* historicalPriceAPI.js lines 7-43): here 2 calls per period of 2 ticks for
\* every provider
rateLimit == [calls |-> 2, period |-> 2]

\* isRateLimited, lines 94-102: the counter is reset when more than a period
\* has passed since lastCallTime
Reset(config) ==
  IF now - config.lastCallTime > rateLimit.period
    THEN [callCount |-> 0, lastCallTime |-> now]
    ELSE config

\* isRateLimited, line 104
isRateLimited(config) == Reset(config).callCount >= rateLimit.calls

\* recordAPICall, lines 108-112
recordAPICall(config) ==
  [callCount |-> config.callCount + 1, lastCallTime |-> now]

\* the requests one fetch sends: fetchPriceFromBinance of cryptoAPI.js sends
\* two, ticker/price and ticker/24hr (lines 293-302), every other fetch one
RequestsOf(service, provider) ==
  IF service = "cryptoAPI" /\ provider = "binance" THEN 2 ELSE 1

Send(provider, n) ==
  [sent EXCEPT ![provider][now] = @ + n]

\* a fetch of a service from a provider (cryptoAPI.js lines 226-346,
\* historicalPriceAPI.js lines 122-300): 'Rate limit exceeded' when the
\* service's counter says so, else the call is recorded and the requests
\* are sent
Fetch(service, provider) ==
  LET config == API_PROVIDERS[<<service, provider>>] IN
  /\ nfetch < MaxFetches
  /\ nfetch' = nfetch + 1
  /\ IF isRateLimited(config)
       THEN /\ API_PROVIDERS' = [API_PROVIDERS EXCEPT ![<<service, provider>>] = Reset(config)]
            /\ sent' = sent
       ELSE /\ API_PROVIDERS' = [API_PROVIDERS EXCEPT ![<<service, provider>>] =
                                   recordAPICall(Reset(config))]
            /\ sent' = Send(provider, RequestsOf(service, provider))
  /\ UNCHANGED <<store, req, nops, nreads, faults, oracle, memoryCache, call,
               returned, ratesCache, rateCall, rateReturned, wrapped,
               adapter, pool, transactionConnection, committed, tx, now>>

\* the rate requests of currency.js (lines 37-42) and historicalPriceAPI.js
\* (lines 456-461, 527-532) go to CoinGecko past the counters
FetchRates ==
  /\ nfetch < MaxFetches
  /\ nfetch' = nfetch + 1
  /\ sent' = Send("coingecko", 1)
  /\ UNCHANGED <<store, req, nops, nreads, faults, oracle, memoryCache, call,
               returned, ratesCache, rateCall, rateReturned, wrapped,
               adapter, pool, transactionConnection, committed, tx, API_PROVIDERS, now>>

LimitNext ==
  \/ \E sv \in Services, p \in LimitedProviders : Fetch(sv, p)
  \/ FetchRates
  \/ Tick

LimitSpec == Init /\ [][LimitNext]_vars

(* ---------------------- the store wrapper's callbacks ------------------- *)
\* the methods of the wrapper that take a callback
Methods == {"run", "get", "all"}

\* what a callback does when it is invoked: it returns, it throws, or, being
\* async, it returns a promise that rejects (as the sell's callback does when
\* the price fetch fails, trading.js lines 197-209)
Behaviours == {"returns", "throws", "rejects"}

\* DatabaseWrapper.js lines 41-105 (database_new.js lines 93-179): the
\* statement is handed to the store, the callback is kept for its outcome
Wrap(i, method, behaviour) ==
  /\ wrapped[i].pc \in {"idle", "done"}
  /\ wrapped' = [wrapped EXCEPT ![i] =
                   [pc |-> "pending", method |-> method, behaviour |-> behaviour]]
  /\ UNCHANGED <<store, req, nops, nreads, faults, oracle, memoryCache, call,
               returned, ratesCache, rateCall, rateReturned, API_PROVIDERS,
               sent, nfetch, adapter, pool, transactionConnection,
               committed, tx, now>>

\* what the handler given to then() hands on: get and all return the value
\* of the callback (lines 77, 97), run calls it in a block and returns
\* nothing (lines 50-57)
HandlerRejects(method, behaviour) ==
  \/ behaviour = "throws"
  \/ behaviour = "rejects" /\ method \in {"get", "all"}

\* promise.then(... callback(null, ...)).catch(err => callback(err)) with a
\* statement that succeeded: the callback is invoked without error, and what
\* its handler throws or rejects with goes to the catch, which invokes it
\* again
StoreSucceeds(i) ==
  LET w == wrapped[i] IN
  /\ w.pc = "pending"
  /\ wrapped' = [wrapped EXCEPT ![i] =
       [pc |-> "done", method |-> w.method, behaviour |-> w.behaviour,
        succeeded |-> TRUE,
        invoked |-> IF HandlerRejects(w.method, w.behaviour)
                      THEN <<"null", "error">> ELSE <<"null">>]]
  /\ UNCHANGED <<store, req, nops, nreads, faults, oracle, memoryCache, call,
               returned, ratesCache, rateCall, rateReturned, API_PROVIDERS,
               sent, nfetch, adapter, pool, transactionConnection,
               committed, tx, now>>

\* the statement failed: then() is passed over, the catch invokes the
\* callback with the error; what the callback throws there is caught by
\* nobody
StoreFails(i) ==
  LET w == wrapped[i] IN
  /\ w.pc = "pending"
  /\ wrapped' = [wrapped EXCEPT ![i] =
       [pc |-> "done", method |-> w.method, behaviour |-> w.behaviour,
        succeeded |-> FALSE, invoked |-> <<"error">>]]
  /\ UNCHANGED <<store, req, nops, nreads, faults, oracle, memoryCache, call,
               returned, ratesCache, rateCall, rateReturned, API_PROVIDERS,
               sent, nfetch, adapter, pool, transactionConnection,
               committed, tx, now>>

WrapNext ==
  \/ \E i \in Slots, me \in Methods, b \in Behaviours : Wrap(i, me, b)
  \/ \E i \in Slots : StoreSucceeds(i)
  \/ \E i \in Slots : StoreFails(i)

WrapSpec == Init /\ [][WrapNext]_vars

(* ------------------ transactions of the pooled adapters ----------------- *)
\* statements issued over a run
MaxStatements == 3

\* the adapters that work on a pool of connections
Adapters == {"mysql", "postgresql"}

\* the process runs on one of them
TxInit ==
  /\ users = EmptyTable
  /\ balances = EmptyTable
  /\ portfolio = EmptyTable
  /\ nextId = 1
  /\ transactions = <<>>
  /\ req = [s \in Slots |-> Idle]
  /\ nops = 0
  /\ nreads = 0
  /\ faults = 0
  /\ oracle = [c \in SUPPORTED_CURRENCIES |-> 0]
  /\ memoryCache = EmptyTable
  /\ now = 0
  /\ call = [i \in Slots |-> [pc |-> "idle"]]
  /\ returned = <<>>
  /\ ratesCache = EmptyTable
  /\ rateCall = [i \in Slots |-> [pc |-> "idle"]]
  /\ rateReturned = <<>>
  /\ API_PROVIDERS = [k \in Services \X LimitedProviders |-> [callCount |-> 0, lastCallTime |-> 0]]
  /\ sent = [p \in LimitedProviders |-> [t \in 0..MaxTime |-> 0]]
  /\ nfetch = 0
  /\ wrapped = [i \in Slots |-> [pc |-> "idle"]]
  /\ adapter \in Adapters
  /\ pool = [c \in Connections |-> [inTransaction |-> FALSE, pending |-> {}]]
  /\ transactionConnection = 0
  /\ committed = {}
  /\ tx = [open |-> FALSE, issued |-> {}, rolledBack |-> {}, count |-> 0]

\* a statement runs on connection c: inside the transaction open on c, or
\* committed at once
Execute(c, stmt) ==
  IF pool[c].inTransaction
    THEN /\ pool' = [pool EXCEPT ![c].pending = @ \cup {stmt}]
         /\ committed' = committed
    ELSE /\ committed' = committed \cup {stmt}
         /\ pool' = pool

\* MySQLDatabase.beginTransaction, lines 71-75: a connection is taken from
\* the pool, the transaction begun on it, and the connection kept.
\* PostgreSQLDatabase.beginTransaction, lines 71-73: pool.query('BEGIN') runs
\* on the client the pool picks
BeginTransaction ==
  /\ ~tx.open
  /\ tx' = [tx EXCEPT !.open = TRUE, !.issued = {}]
  /\ \E c \in Connections :
       /\ pool' = [pool EXCEPT ![c].inTransaction = TRUE]
       /\ transactionConnection' = IF adapter = "mysql" THEN c
                                                        ELSE transactionConnection
  /\ UNCHANGED <<store, req, nops, nreads, faults, oracle, memoryCache, call,
               returned, ratesCache, rateCall, rateReturned, API_PROVIDERS,
               sent, nfetch, wrapped, adapter, committed, now>>

\* MySQLDatabase.run, lines 58-69: this.pool.execute, on a connection of the
\* pool that is not checked out.  PostgreSQLDatabase.run, lines 58-69:
\* this.pool.query, on the client the pool picks
Run ==
  /\ tx.count < MaxStatements
  /\ LET stmt == tx.count + 1 IN
     /\ tx' = [tx EXCEPT !.count = stmt,
                         !.issued = IF tx.open THEN @ \cup {stmt} ELSE @]
     /\ \E c \in Connections :
          /\ adapter = "mysql" => c # transactionConnection
          /\ Execute(c, stmt)
  /\ UNCHANGED <<store, req, nops, nreads, faults, oracle, memoryCache, call,
               returned, ratesCache, rateCall, rateReturned, API_PROVIDERS,
               sent, nfetch, wrapped, adapter, transactionConnection, now>>

\* MySQLDatabase.commit, lines 77-83, on the kept connection;
\* PostgreSQLDatabase.commit, lines 75-77: pool.query('COMMIT') on the client
\* the pool picks
Commit ==
  /\ tx.open
  /\ tx' = [tx EXCEPT !.open = FALSE, !.issued = {}]
  /\ \E c \in Connections :
       /\ adapter = "mysql" => c = transactionConnection
       /\ committed' = committed \cup pool[c].pending
       /\ pool' = [pool EXCEPT ![c] = [inTransaction |-> FALSE, pending |-> {}]]
  /\ transactionConnection' = 0
  /\ UNCHANGED <<store, req, nops, nreads, faults, oracle, memoryCache, call,
               returned, ratesCache, rateCall, rateReturned, API_PROVIDERS,
               sent, nfetch, wrapped, adapter, now>>

\* MySQLDatabase.rollback, lines 85-91; PostgreSQLDatabase.rollback, lines
\* 79-81
Rollback ==
  /\ tx.open
  /\ tx' = [tx EXCEPT !.open = FALSE, !.issued = {},
                      !.rolledBack = @ \cup tx.issued]
  /\ \E c \in Connections :
       /\ adapter = "mysql" => c = transactionConnection
       /\ pool' = [pool EXCEPT ![c] = [inTransaction |-> FALSE, pending |-> {}]]
  /\ transactionConnection' = 0
  /\ UNCHANGED <<store, req, nops, nreads, faults, oracle, memoryCache, call,
               returned, ratesCache, rateCall, rateReturned, API_PROVIDERS,
               sent, nfetch, wrapped, adapter, committed, now>>

TxNext ==
  \/ BeginTransaction
  \/ Run
  \/ Commit
  \/ Rollback

TxSpec == TxInit /\ [][TxNext]_vars

(* -------------------- requests that name different assets --------------- *)
\* the asset ids and the symbol a buy or sell is sent with: the client sends
\* both, and nothing ties one to the other
AssetIds == {"bitcoin", "ethereum"}
AssetSymbols == {"BTC"}
AssetAmounts == {1, 3}
AssetCodes == {"usd"}

AssetNext ==
  \/ \E u \in Users : Register(u)
  \/ \E s \in Slots, u \in Users, id \in AssetIds, sym \in AssetSymbols,
          a \in AssetAmounts, c \in AssetCodes :
       BuyStart(s, u, id, sym, a, c)
  \/ \E s \in Slots : BuyPrice(s)
  \/ \E s \in Slots : BuyCheckBalance(s)
  \/ \E s \in Slots : BuyDebit(s)
  \/ \E s \in Slots : BuyGetHolding(s)
  \/ \E s \in Slots : BuyWriteHolding(s)
  \/ \E s \in Slots : BuyLog(s)
  \/ \E s \in Slots, u \in Users, id \in AssetIds, sym \in AssetSymbols,
          a \in AssetAmounts, c \in AssetCodes :
       SellStart(s, u, id, sym, a, c)
  \/ \E s \in Slots : SellGetHolding(s)
  \/ \E s \in Slots : SellPrice(s)
  \/ \E s \in Slots : SellCredit(s)
  \/ \E s \in Slots : SellUpdateHolding(s)
  \/ \E s \in Slots : SellLog(s)

AssetSpec == Init /\ [][AssetNext]_vars

(* ============================== properties ============================= *)
\* the step taken is a step of the request in slot s
StepOf(s) == req'[s] # req[s]

HoldingKey(r) == <<r.user, toUpperCase(r.symbol), toLowerCase(r.currency)>>

\* the store writes a settlement consists of
AllWrites(op) ==
  IF op = "exchange" THEN {"balance", "credit", "log"}
                     ELSE {"balance", "holding", "log"}

\* C1: every balances row (user, currency) has amount >= 0 in every reachable
\* state, also for a user whose funds are the legacy users.balance.
C1_BalanceRowsNonNegative == \A k \in DOMAIN balances : balances[k] >= 0

\* C2: concurrent settlements of one user never debit more of a currency
\* than the effective balance that was available: the effective balance
\* (row plus legacy) never falls below zero.
C2_NoOverspend ==
  \A u \in DOMAIN users : \A c \in SUPPORTED_CURRENCIES :
    getBalanceInCurrency(u, c) >= 0

\* C3: a buy, sell or exchange that has finished has applied all of its
\* store writes or none of them.
C3_AllOrNothing ==
  \A s \in Slots :
    (req[s].pc = "done" /\ req[s].op \in {"buy", "sell", "exchange"})
      => (req[s].applied = {} \/ req[s].applied = AllWrites(req[s].op))

\* C4: when the price fetch of a buy or sell, or the rate fetch of an
\* exchange, fails, the request ends with a failure response, has written
\* nothing, and the step changes no table.
C4_FetchFailureNoMutation ==
  [][\A s \in Slots :
       (req[s].pc \in {"price", "rates"} /\ StepOf(s) /\ faults' # faults)
         => /\ req'[s].pc = "done"
            /\ req'[s].status = 500
            /\ req'[s].applied = {}
            /\ store' = store]_vars

C4_Witness ==
  \E s \in Slots :
    /\ req[s].pc = "done" /\ req[s].op = "buy"
    /\ req[s].error = "Failed to complete purchase"
    /\ transactions # <<>>

\* C5: at the sufficiency check a buy or exchange whose cost exceeds the
\* effective balance (strictly), and a sell of more than is held or of no
\* holding, is rejected with status 400; the rejection changes no table, the
\* request has written nothing, and the insufficient-balance response carries
\* the required and the available amount.  A request whose cost does not
\* exceed the balance passes the check.
C5_InsufficientRejected ==
  [][\A s \in Slots :
       /\ (req[s].pc = "balance" /\ StepOf(s) /\ faults' = faults)
            => LET required == IF req[s].op = "buy" THEN req[s].total
                                                    ELSE req[s].amount
                   available == getBalanceInCurrency(req[s].user, req[s].currency)
               IN IF available < required
                    THEN /\ req'[s].pc = "done" /\ req'[s].status = 400
                         /\ req'[s].error = "Insufficient balance"
                         /\ req'[s].required = required
                         /\ req'[s].available = available
                         /\ req'[s].applied = {}
                         /\ store' = store
                    ELSE req'[s].pc = "debit"
       /\ (req[s].op = "sell" /\ req[s].pc = "holding" /\ StepOf(s)
             /\ faults' = faults)
            => LET k == HoldingKey(req[s])
               IN IF k \notin DOMAIN portfolio \/ portfolio[k].amount < req[s].amount
                    THEN /\ req'[s].pc = "done" /\ req'[s].status = 400
                         /\ req'[s].error = "Insufficient holdings"
                         /\ req'[s].applied = {}
                         /\ store' = store
                    ELSE req'[s].pc = "price"]_vars

C5_Witness ==
  /\ \E s \in Slots :
       /\ req[s].pc = "done" /\ req[s].error = "Insufficient balance"
       /\ req[s].available < req[s].required
  /\ \E s \in Slots :
       req[s].pc = "done" /\ req[s].error = "Insufficient holdings"

\* C6: a step of a sell changes no holding's average_buy_price: a row that
\* survives keeps its id, coin and cost basis, only its amount changes.
C6_SellKeepsBasis ==
  [][\A s \in Slots :
       (req[s].op = "sell" /\ StepOf(s))
         => \A k \in DOMAIN portfolio \cap DOMAIN portfolio' :
              /\ portfolio'[k].average_buy_price = portfolio[k].average_buy_price
              /\ portfolio'[k].id = portfolio[k].id
              /\ portfolio'[k].coin_id = portfolio[k].coin_id]_vars

\* a sell has reduced a holding that survives with its basis
C6_Witness ==
  \E s \in Slots :
    /\ req[s].op = "sell" /\ req[s].pc = "log" /\ "holding" \in req[s].applied
    /\ HoldingKey(req[s]) \in DOMAIN portfolio
    /\ portfolio[HoldingKey(req[s])].amount = 2

\* C7: a buy of delta at unit price p into the existing holding it read
\* (oldAmount, oldBasis) writes amount oldAmount + delta and the basis
\* (oldBasis*oldAmount + p*delta) / (oldAmount + delta); a buy that found
\* no holding creates one with amount delta and basis p.
C7_WeightedAverage ==
  [][\A s \in Slots :
       (req[s].op = "buy" /\ StepOf(s) /\ portfolio' # portfolio)
         => LET r == req[s]
                k == HoldingKey(r)
                old == r.holding
                new == portfolio'[k]
                delta == r.amount
                p == r.price[1]
            IN IF old.id = 0
                 THEN new.amount = delta /\ new.average_buy_price = <<p, 1>>
                 ELSE /\ new.amount = old.amount + delta
                      /\ new.average_buy_price[1] * old.average_buy_price[2]
                           * (old.amount + delta)
                         = new.average_buy_price[2]
                             * (old.average_buy_price[1] * old.amount
                                  + p * delta * old.average_buy_price[2])]_vars

\* 3 units bought at 1 and 1 unit at 2: 4 units at (3*1 + 1*2)/4
C7_Witness ==
  \E k \in DOMAIN portfolio :
    portfolio[k].amount = 4 /\ portfolio[k].average_buy_price = <<5, 4>>

\* C8: every holding row that exists has amount > 1e-8, the dust threshold,
\* whichever operation created or last updated it.
C8_NoDustHolding ==
  \A k \in DOMAIN portfolio : portfolio[k].amount > DustThreshold

\* C9: a deposit, buy, sell or exchange that reports success has appended
\* its transaction record.
C9_SuccessHasRecord ==
  \A s \in Slots :
    (req[s].op \in {"deposit", "buy", "sell", "exchange"} /\ req[s].status = 200)
      => "log" \in req[s].applied

\* C10: the transaction log is append-only: every step leaves the records
\* that exist in place and unchanged, and at most adds one at the end.
C10_AppendOnly ==
  [][/\ Len(transactions') >= Len(transactions)
     /\ SubSeq(transactions', 1, Len(transactions)) = transactions]_vars

C10_Witness ==
  /\ Len(transactions) >= 3
  /\ \E i, j \in 1..Len(transactions) :
       transactions[i].type = "buy" /\ transactions[j].type = "sell"

\* the amount of the balances row k of table tbl, 0 when there is no row
RowAmount(tbl, k) == IF k \in DOMAIN tbl THEN tbl[k] ELSE 0

\* a request in flight
InFlight(s) == req[s].pc \notin {"idle", "done"}

\* C11: a deposit that reports success has credited the balances row of its
\* currency with its amount (and appended its deposit record).
C11_SuccessfulDepositCredited ==
  \A s \in Slots :
    (req[s].op = "deposit" /\ req[s].pc = "done" /\ req[s].status = 200)
      => {"balance", "log"} \subseteq req[s].applied

\* C12: a buy that reports success has debited the balances row of its
\* currency by amount * price and has written its holding.
C12_SuccessfulBuyDebited ==
  \A s \in Slots :
    (req[s].op = "buy" /\ req[s].pc = "done" /\ req[s].status = 200)
      => {"balance", "holding"} \subseteq req[s].applied

\* C13: the holding write of a sell takes the sold amount off the amount the
\* row holds when the write is applied, removing the row when nothing above
\* the dust threshold is left; a sell that reports success has credited
\* amount * price and has written the holding.
C13_SellSettles ==
  [][\A s \in Slots :
       (req[s].op = "sell" /\ InFlight(s) /\ StepOf(s))
         => /\ (req[s].pc = "update" /\ "holding" \in req'[s].applied)
                 => LET k == HoldingKey(req[s])
                        left == portfolio[k].amount - req[s].amount
                    IN IF left > DustThreshold
                         THEN k \in DOMAIN portfolio' /\ portfolio'[k].amount = left
                         ELSE k \notin DOMAIN portfolio'
            /\ (req[s].pc = "credit" /\ "balance" \in req'[s].applied)
                 => LET k == <<req[s].user, toLowerCase(req[s].currency)>>
                    IN RowAmount(balances', k)
                         = RowAmount(balances, k) + req[s].amount * req[s].price[1]
            /\ (req'[s].pc = "done" /\ req'[s].status = 200)
                 => {"balance", "holding"} \subseteq req'[s].applied]_vars

\* C14: in an exchange between two different currencies the debit step takes
\* exactly amount off the source currency and the credit step adds exactly
\* amount * rates[to] / rates[from] to the target currency; no step of the
\* exchange changes another balances row, the legacy balance or a holding,
\* and an exchange that reports success has done both writes.
C14_ExchangeMoves ==
  [][\A s \in Slots :
       (req[s].op = "exchange" /\ InFlight(s) /\ StepOf(s)
          /\ req[s].currency # req[s].toCurrency)
         => LET r == req[s]
                from == <<r.user, r.currency>>
                to == <<r.user, r.toCurrency>>
                keys == DOMAIN balances \cup DOMAIN balances'
                Same(ks) == \A k \in ks : RowAmount(balances', k) = RowAmount(balances, k)
            IN /\ users' = users /\ portfolio' = portfolio
               /\ IF r.pc = "debit" /\ "balance" \in req'[s].applied
                    THEN /\ RowAmount(balances', from) = RowAmount(balances, from) - r.amount
                         /\ Same(keys \ {from})
                  ELSE IF r.pc = "credit" /\ "credit" \in req'[s].applied
                    THEN /\ (RowAmount(balances', to) - RowAmount(balances, to))
                               * Rates[r.currency] = r.amount * Rates[r.toCurrency]
                         /\ Same(keys \ {to})
                  ELSE Same(keys)
               /\ (req'[s].pc = "done" /\ req'[s].status = 200)
                    => {"balance", "credit"} \subseteq req'[s].applied]_vars

\* 2 usd exchanged into eur at 2 eur per usd: usd row -2 (the funds are the
\* legacy balance), eur row 4
C14_Witness ==
  /\ \E s \in Slots :
       req[s].op = "exchange" /\ req[s].pc = "done" /\ req[s].status = 200
  /\ RowAmount(balances, <<1, "usd">>) = -2
  /\ RowAmount(balances, <<1, "eur">>) = 4

\* C15: a record of type exchange carries the source currency, the
\* destination currency and the rate in from_currency, to_currency and
\* exchange_rate; records of the other types leave the three fields empty.
C15_ExchangeRecordFields ==
  \A i \in 1..Len(transactions) :
    LET rec == transactions[i] IN
    IF rec.type = "exchange"
      THEN /\ rec.from_currency \in SUPPORTED_CURRENCIES
           /\ rec.to_currency = rec.currency
           /\ rec.exchange_rate = rec.price
      ELSE /\ rec.from_currency = NULL
           /\ rec.to_currency = NULL
           /\ rec.exchange_rate = NULL

\* C16: with a provider and a store that work, an exchange of a positive
\* amount from a supported currency into the same currency ends in success:
\* it is not rejected for insufficient balance.
C16_SameCurrencySucceeds ==
  [][\A s \in Slots :
       (req[s].op = "exchange" /\ InFlight(s) /\ StepOf(s)
          /\ req[s].currency = req[s].toCurrency
          /\ req[s].currency \in SUPPORTED_CURRENCIES
          /\ faults' = faults /\ req'[s].pc = "done")
         => req'[s].status = 200]_vars

\* C17: no request waits for the price or rate provider with a non-positive
\* amount or an unsupported currency: validation has rejected it before.
C17_ValidatedBeforeFetch ==
  \A s \in Slots :
    req[s].pc \in {"price", "rates"}
      => /\ req[s].amount > 0
         /\ isCurrencySupported(req[s].currency)
         /\ req[s].op = "exchange" => isCurrencySupported(req[s].toCurrency)

\* C18: the balance GET /balance answers with is the amount of the balances
\* row of (user, lowercased currency), 0 without a row, plus the legacy
\* balance exactly when the currency is usd; the read changes no table.
C18_EffectiveBalance ==
  [][\A s \in Slots :
       (StepOf(s) /\ req'[s].op = "balance" /\ req'[s].status = 200)
         => LET u == req'[s].user
                c == req'[s].currency
                legacy == IF u \in DOMAIN users THEN users[u].balance ELSE 0
            IN /\ req'[s].available
                    = RowAmount(balances, <<u, c>>) + (IF c = "usd" THEN legacy ELSE 0)
               /\ store' = store]_vars

\* the eur balance of a user with a legacy balance is the eur row alone
C18_Witness ==
  \E s \in Slots :
    /\ req[s].op = "balance" /\ req[s].status = 200
    /\ req[s].user \in DOMAIN users /\ users[req[s].user].balance > 0
    /\ req[s].currency = "eur" /\ req[s].available = 2
    /\ RowAmount(balances, <<req[s].user, "eur">>) = 2

\* C19: a balance read for a user id without a users row does not answer
\* with an amount.
C19_UnknownUserNotFound ==
  \A s \in Slots :
    (req[s].op = "balance" /\ req[s].pc = "done" /\ req[s].user \notin DOMAIN users)
      => req[s].status # 200

\* C20: the keys of the stats a GET /stats answers with are the currencies of
\* the balances rows it read, usd when the legacy balance is positive, and
\* the currencies of the holdings it read, priced or not.
C20_StatsKeys ==
  [][\A s \in Slots :
       (req[s].op = "stats" /\ req[s].pc = "prices" /\ StepOf(s)
          /\ req'[s].pc = "done" /\ req'[s].status = 200)
         => DOMAIN req'[s].stats
              = DOMAIN req[s].cashBalances
                  \cup {req[s].holdings[i].currency : i \in 1..Len(req[s].holdings)}]_vars

\* the portfolio rows of user u in currency c
HoldingsOf(u, c) == {k \in DOMAIN portfolio : k[1] = u /\ k[3] = c}

\* the sum of the amounts of the portfolio rows ks
RECURSIVE AmountSum(_)
AmountSum(ks) ==
  IF ks = {} THEN 0
  ELSE LET k == CHOOSE x \in ks : TRUE
       IN portfolio[k].amount + AmountSum(ks \ {k})

\* the sum of amount * average_buy_price over the portfolio rows ks
RECURSIVE InvestedSum(_)
InvestedSum(ks) ==
  IF ks = {} THEN <<0, 1>>
  ELSE LET k == CHOOSE x \in ks : TRUE
           h == portfolio[k]
       IN FracAdd(Frac(h.amount * h.average_buy_price[1], h.average_buy_price[2]),
                  InvestedSum(ks \ {k}))

\* a GET /stats that has answered
StatsDone(s) == req[s].op = "stats" /\ req[s].pc = "done"

\* C21: a failing price fetch does not abort GET /stats: the request answers
\* 200 unless a store read failed; per currency the crypto value is the sum
\* of amount * price over the holdings whose price fetch succeeded (nothing
\* for a holding whose fetch failed) and invested counts every holding.
C21_PriceFailureTolerated ==
  \A s \in Slots :
    StatsDone(s) =>
      /\ req[s].status \in {200, 500}
      /\ req[s].status = 500 => (req[s].error = "Database error" /\ faults > 0)
      /\ req[s].status = 200 =>
           \A c \in SUPPORTED_CURRENCIES :
             LET ks == HoldingsOf(req[s].user, c)
                 crypto == IF c \in DOMAIN req[s].stats
                             THEN req[s].stats[c].crypto_value ELSE 0
             IN /\ crypto = AmountSum(ks) * oracle[c]
                /\ ks # {} => /\ c \in DOMAIN req[s].stats
                              /\ req[s].stats[c].invested = InvestedSum(ks)

\* the price of the eur holding cannot be fetched, that of the usd holding
\* can: the answer is a success with eur invested and no eur crypto value
C21_Witness ==
  \E s \in Slots :
    /\ StatsDone(s) /\ req[s].status = 200
    /\ oracle["eur"] = 0
    /\ {"usd", "eur"} \subseteq DOMAIN req[s].stats
    /\ req[s].stats["usd"].crypto_value > 0
    /\ req[s].stats["eur"].crypto_value = 0
    /\ req[s].stats["eur"].invested[1] > 0

\* C22: in the answer of GET /stats on a store at rest, per currency:
\* cash_balance is the effective balance of the balance resolver, invested
\* the sum of amount * average_buy_price over the user's holdings in the
\* currency, total_value = cash_balance + crypto_value, profit_loss =
\* crypto_value - invested, and profit_loss_percent = 100 * profit_loss /
\* invested when invested > 0, else 0.
C22_StatsValues ==
  \A s \in Slots :
    (StatsDone(s) /\ req[s].status = 200) =>
      \A c \in DOMAIN req[s].stats :
        LET e == req[s].stats[c]
            inv == e.invested
            pl == e.profit_loss
            pct == e.profit_loss_percent
        IN /\ e.cash_balance = getBalanceInCurrency(req[s].user, c)
           /\ inv = InvestedSum(HoldingsOf(req[s].user, c))
           /\ e.total_value = e.cash_balance + e.crypto_value
           /\ pl[1] * inv[2] = (e.crypto_value * inv[2] - inv[1]) * pl[2]
           /\ IF inv[1] > 0
                THEN pct[1] * pl[2] * inv[1] = pl[1] * inv[2] * 100 * pct[2]
                ELSE pct = <<0, 1>>

\* one unit bought at 1 and priced at 2: invested 1, profit 1, 100 percent,
\* cash the legacy 5 less the cost
C22_Witness ==
  \E s \in Slots :
    /\ StatsDone(s) /\ req[s].status = 200
    /\ "usd" \in DOMAIN req[s].stats
    /\ req[s].stats["usd"].cash_balance = INITIAL_BALANCE - 1
    /\ req[s].stats["usd"].invested = <<1, 1>>
    /\ req[s].stats["usd"].crypto_value = 2
    /\ req[s].stats["usd"].profit_loss = <<1, 1>>
    /\ req[s].stats["usd"].profit_loss_percent = <<100, 1>>

\* the requests that only read
ReadOps == {"balance", "stats", "portfolio", "history"}

Quiet == \A t \in Slots : Free(t)

\* C24: with fixed rates, an exchange that converts the whole result of the
\* exchange recorded last back into its source currency yields exactly the
\* amount that exchange took, answers success and appends the second
\* exchange record.
C24_RoundTripRecorded ==
  [][\A s \in Slots :
       LET r == req[s]
           n == Len(transactions)
       IN (/\ r.op = "exchange" /\ r.pc = "log" /\ StepOf(s)
           /\ r.currency # r.toCurrency
           /\ n > 0
           /\ transactions[n].type = "exchange"
           /\ transactions[n].user_id = r.user
           /\ transactions[n].symbol = PairSymbol(r.toCurrency, r.currency)
           /\ transactions[n].total = r.amount)
            => /\ r.total = transactions[n].amount
               /\ req'[s].status = 200
               /\ Len(transactions') = n + 1
               /\ transactions'[n + 1].type = "exchange"
               /\ transactions'[n + 1].symbol = PairSymbol(r.currency, r.toCurrency)]_vars

\* C27: every balances row carries a lowercase currency code and every
\* portfolio row an uppercase symbol and a lowercase currency code, so no two
\* rows of a user differ in letter case only.
C27_OneRowPerCode ==
  /\ \A k \in DOMAIN balances : k[2] = toLowerCase(k[2])
  /\ \A k \in DOMAIN portfolio : k[2] = toUpperCase(k[2]) /\ k[3] = toLowerCase(k[3])
  /\ \A k, l \in DOMAIN balances :
       (k[1] = l[1] /\ toLowerCase(k[2]) = toLowerCase(l[2])) => k = l
  /\ \A k, l \in DOMAIN portfolio :
       (/\ k[1] = l[1] /\ toUpperCase(k[2]) = toUpperCase(l[2])
        /\ toLowerCase(k[3]) = toLowerCase(l[3])) => k = l

\* a deposit sent with EUR and an exchange sent with eur have met in one
\* row, or a buy of btc in USD and a sell of BTC in usd in one holding
C27_Witness ==
  \/ /\ DOMAIN balances = {<<1, "usd">>, <<1, "eur">>}
     /\ balances[<<1, "eur">>] = 6
     /\ Len(transactions) = 3
     /\ transactions[2].type = "deposit" /\ transactions[3].type = "exchange"
  \/ /\ DOMAIN portfolio = {<<1, "BTC", "usd">>}
     /\ portfolio[<<1, "BTC", "usd">>].amount = 2
     /\ Len(transactions) = 3
     /\ transactions[2].type = "buy" /\ transactions[3].type = "sell"

\* C25: a settlement has sent its success response only when none of its
\* store statements is still pending: the balance write, the holding write
\* and the log append have all completed, so a read that follows the
\* response sees all of them.
C25_ResponseAfterWrites ==
  \A s \in Slots :
    (req[s].op \in {"deposit", "buy", "sell", "exchange"} /\ req[s].status = 200)
      => req[s].pc = "done"

\* C26: every buy, sell and exchange request that was accepted eventually
\* ends with a response, also when the price or rate provider never answers.
C26_Terminates ==
  \A s \in Slots : InFlight(s) ~> ~InFlight(s)

\* the part of it that concerns the price calls: every buy and every sell
\* eventually ends
BuySellTerminate ==
  \A s \in Slots : (InFlight(s) /\ req[s].op \in {"buy", "sell"}) ~> ~InFlight(s)

\* the rows and records of user u, and its legacy balance
OwnedBy(u, us, bal, pf, log) ==
  LET Mine(rec) == rec.user_id = u
  IN <<IF u \in DOMAIN us THEN us[u].balance ELSE -1,
       [k \in {x \in DOMAIN bal : x[1] = u} |-> bal[k]],
       [k \in {x \in DOMAIN pf : x[1] = u} |-> pf[k]],
       SelectSeq(log, Mine)>>

\* C28: a step of a request of user a changes no legacy balance, balances
\* row, portfolio row or record of another user, and what a read of a
\* answers with is taken from the rows of a alone: the rows of GET
\* /portfolio and GET /history carry a's id, GET /balance answers with a's
\* row and legacy balance, GET /stats reads a's balances rows and a's
\* holdings.
C28_UserIsolation ==
  [][\A s \in Slots :
       StepOf(s) =>
         LET a == req'[s].user
             r == req'[s]
         IN /\ \A u \in UserIds \ {a} :
                 OwnedBy(u, users', balances', portfolio', transactions')
                   = OwnedBy(u, users, balances, portfolio, transactions)
            /\ (r.op \in {"portfolio", "history"} /\ r.status = 200)
                 => \A i \in 1..Len(r.rows) : r.rows[i].user_id = a
            /\ (r.op = "balance" /\ r.status = 200)
                 => r.available
                      = RowAmount(balances, <<a, r.currency>>)
                          + (IF r.currency = "usd" /\ a \in DOMAIN users
                               THEN users[a].balance ELSE 0)
            /\ (r.op = "stats" /\ r.pc = "holdings")
                 => DOMAIN r.cashBalances
                      \subseteq {k[2] : k \in {x \in DOMAIN balances : x[1] = a}}
                                  \cup {"usd"}
            /\ (r.op = "stats" /\ r.pc = "prices" /\ req[s].pc = "holdings")
                 => Len(r.holdings)
                      = Cardinality({k \in DOMAIN portfolio : k[1] = a})]_vars

\* user 1 holds what it bought, and user 2 has read its history: its own
\* registration deposit, not the records of user 1
C28_Witness ==
  \E s \in Slots :
    /\ req[s].op = "history" /\ req[s].status = 200 /\ req[s].user = 2
    /\ Len(req[s].rows) = 1
    /\ <<1, "BTC", "usd">> \in DOMAIN portfolio
    /\ \E i \in 1..Len(transactions) :
         transactions[i].user_id = 1 /\ transactions[i].type = "buy"

\* C29: whenever getCryptoPrice returns a price, the currency of the result
\* is the lowercased currency the call asked for, whichever provider answered
\* and whether or not the value came from the cache.
C29_PriceInRequestedCurrency ==
  \A n \in 1..Len(returned) :
    returned[n].data # NoData
      => returned[n].data.currency = toLowerCase(returned[n].key[2])

\* C30: after a call has fetched a price for (coinId, currency), every call
\* for the same pair that begins after it has ended and within the TTL of its
\* entry returns the identical value from the cache, without going to a
\* provider; the first call for the pair that begins after that TTL goes to a
\* provider; a call never returns an entry whose expiry time has passed.
C30_CachedForTTL ==
  /\ \A m, n \in 1..Len(returned) :
       (/\ returned[m].fetched /\ returned[m].data # NoData
        /\ returned[n].key = returned[m].key
        /\ returned[n].after >= m
        /\ returned[n].began <= returned[m].expiresAt)
         => /\ ~returned[n].fetched
            /\ returned[n].data = returned[m].data
  /\ \A m, n \in 1..Len(returned) :
       (/\ returned[m].fetched /\ returned[m].data # NoData
        /\ returned[n].key = returned[m].key
        /\ returned[n].after >= m
        /\ returned[n].began > returned[m].expiresAt
        /\ \A k \in 1..Len(returned) :
             (k # m /\ k # n /\ returned[k].key = returned[m].key)
               => returned[k].after < m /\ k < m)
         => returned[n].fetched
  /\ \A n \in 1..Len(returned) :
       (~returned[n].fetched) => returned[n].began <= returned[n].expiresAt

\* the calls among the first k ended ones that fetched rates for base b
FetchedBefore(k, b) ==
  {m \in 1..k : rateReturned[m].outcome = "fetched" /\ rateReturned[m].base = b}

\* the entry a call found when it began: the one stored last
EntryFound(n) ==
  LET ms == FetchedBefore(rateReturned[n].after, rateReturned[n].base)
  IN CHOOSE m \in ms : \A x \in ms : x <= m

C32_RegistrationGrant ==
  [][\A u \in Users :
       (u \notin DOMAIN users /\ u \in DOMAIN users')
         => /\ \A c \in SUPPORTED_CURRENCIES :
                 RowAmount(balances', <<u, c>>)
                   + (IF c = "usd" THEN users'[u].balance ELSE 0)
                   = (IF c = "usd" THEN INITIAL_BALANCE ELSE 0)
            /\ {k \in DOMAIN portfolio' : k[1] = u} = {}
            /\ Cardinality({i \in 1..Len(transactions') :
                              /\ transactions'[i].user_id = u
                              /\ transactions'[i].type = "deposit"
                              /\ transactions'[i].amount = INITIAL_BALANCE
                              /\ transactions'[i].total = INITIAL_BALANCE}) = 1
            /\ \A i \in 1..Len(transactions') :
                 transactions'[i].user_id = u => transactions'[i].type = "deposit"]_vars

\* C33: GET /balances lists no currency with an amount of zero, and, the
\* rows being those the request has read, lists every currency whose
\* effective balance is not zero with that amount.
C33_NonZeroBalancesListed ==
  [][\A s \in Slots :
       (req[s].op = "balances" /\ req[s].pc = "legacy" /\ req'[s].status = 200)
         => LET u == req[s].user
                listed == req'[s].cashBalances
            IN /\ \A c \in DOMAIN listed : listed[c] # 0
               /\ req[s].cashBalances
                    = [c \in BalanceCurrencies(u) |-> balances[<<u, c>>]]
                    => \A c \in SUPPORTED_CURRENCIES :
                         getBalanceInCurrency(u, c) # 0
                           => c \in DOMAIN listed /\ listed[c] = getBalanceInCurrency(u, c)]_vars

\* C34: a call of getCryptoPrice that misses the cache begins at coingecko
\* and goes from a provider to the next one in the order coingecko, coincap,
\* binance, cryptocompare, and only when the provider it is at has failed;
\* when a provider yields a price the call ends there, returns that
\* provider's result and leaves it in the cache under its key; the call
\* throws only when the last provider has failed, and then leaves the cache
\* as it was.  A call served from the cache goes to no provider.
C34_ProviderOrder ==
  [][\A i \in Slots :
       LET c == call[i]
           d == call'[i]
           e == returned'[Len(returned')]
       IN /\ (c.pc = "idle" /\ d.pc = "fetch")
               => providers[d.provider] = "coingecko" /\ returned' = returned
          /\ (c.pc = "idle" /\ d.pc = "idle" /\ Len(returned') = Len(returned) + 1
                /\ \A j \in Slots : call'[j] = call[j])
               => ~e.fetched /\ memoryCache' = memoryCache
          /\ (c.pc = "fetch" /\ d.pc = "fetch" /\ d # c)
               => /\ d.provider = c.provider + 1
                  /\ d.key = c.key
                  /\ returned' = returned /\ memoryCache' = memoryCache
          /\ (c.pc = "fetch" /\ d.pc = "idle")
               => /\ Len(returned') = Len(returned) + 1
                  /\ e.fetched /\ e.key = c.key
                  /\ IF e.data # NoData
                       THEN /\ e.data = ProviderData(providers[c.provider],
                                                     e.data.price, c.key[2])
                            /\ e.data.price \in Prices
                            /\ c.key \in DOMAIN memoryCache'
                            /\ memoryCache'[c.key].value = e.data
                       ELSE /\ c.provider = Len(providers)
                            /\ memoryCache' = memoryCache]_vars

\* a call is at the last provider after the first three have failed, one
\* call has returned a fetched price and another one has thrown
C34_Witness ==
  /\ \E i \in Slots : call[i].pc = "fetch" /\ providers[call[i].provider] = "cryptocompare"
  /\ \E m, n \in 1..Len(returned) :
       /\ returned[m].fetched /\ returned[m].data # NoData
       /\ returned[n].fetched /\ returned[n].data = NoData

\* the requests sent to provider p at the times t .. t + period - 1
RECURSIVE SentIn(_, _, _)
SentIn(p, t, n) ==
  IF n = 0 \/ t > MaxTime THEN 0 ELSE sent[p][t] + SentIn(p, t + 1, n - 1)

\* C35: no more than rateLimit.calls requests are sent to a provider within
\* a window of rateLimit.period, the requests of all services counted
\* together.
C35_RateLimitRespected ==
  \A p \in LimitedProviders, t \in 0..MaxTime :
    SentIn(p, t, rateLimit.period) <= rateLimit.calls

\* the sum of the amounts of the first i records of the given type that
\* user u has for the holding (symbol, currency)
RECURSIVE Traded(_, _, _, _, _)
Traded(i, u, symbol, currency, type) ==
  IF i = 0 THEN 0
  ELSE (IF /\ transactions[i].user_id = u /\ transactions[i].symbol = symbol
           /\ transactions[i].currency = currency /\ transactions[i].type = type
          THEN transactions[i].amount ELSE 0)
       + Traded(i - 1, u, symbol, currency, type)

\* C36: when every request has ended and no store statement has failed, the
\* amount of each holding (user, symbol, currency) is the sum of the amounts
\* of the buys that succeeded minus the sum of the amounts of the sells that
\* succeeded, however the requests were interleaved; a holding that a sell
\* has removed may have had a remainder not above the dust threshold.
C36_NoLostHoldingUpdate ==
  (Quiet /\ faults = 0)
    => \A u \in Users, sym \in {toUpperCase(x) : x \in SymbolInputs},
          c \in SUPPORTED_CURRENCIES :
         LET bought == Traded(Len(transactions), u, sym, c, "buy")
             sold == Traded(Len(transactions), u, sym, c, "sell")
         IN IF <<u, sym, c>> \in DOMAIN portfolio
              THEN portfolio[<<u, sym, c>>].amount = bought - sold
              ELSE bought - sold = 0
                     \/ (sold > 0 /\ bought - sold \in 0..DustThreshold)

\* C37: for every call of run, get or all with a callback, the callback is
\* invoked exactly once, without error when the statement succeeded and with
\* the error when it failed, whatever the callback does.
C37_CallbackOnce ==
  \A i \in Slots :
    wrapped[i].pc = "done"
      => /\ Len(wrapped[i].invoked) = 1
         /\ wrapped[i].invoked[1] = (IF wrapped[i].succeeded THEN "null" ELSE "error")

\* C38: in the MySQL and PostgreSQL adapters, no statement issued between
\* beginTransaction and the matching commit or rollback is committed before
\* the commit, and none that was rolled back is committed in the store.
C38_InsideTransaction ==
  /\ tx.open => tx.issued \cap committed = {}
  /\ tx.rolledBack \cap committed = {}

\* what the first i records of the log say user u has in currency c: the
\* totals of the deposits and of the sells and what exchanges brought in,
\* minus the totals of the buys and what exchanges took out (the source
\* currency of an exchange is the first half of its symbol)
RECURSIVE Ledger(_, _, _)
Ledger(i, u, c) ==
  IF i = 0 THEN 0
  ELSE LET t == transactions[i]
       IN Ledger(i - 1, u, c)
          + (IF t.user_id # u THEN 0
             ELSE CASE t.type \in {"deposit", "sell"} /\ t.currency = c -> t.total
                    [] t.type = "buy" /\ t.currency = c -> 0 - t.total
                    [] t.type = "exchange" ->
                         (IF t.currency = c THEN t.total ELSE 0)
                         - (IF \E to \in SUPPORTED_CURRENCIES :
                                 t.symbol = PairSymbol(c, to)
                              THEN t.amount ELSE 0)
                    [] OTHER -> 0)

\* C39: when every request has ended, the effective balance of each user in
\* each currency is the amount the user's records add up to.
C39_BalanceFromRecords ==
  Quiet => \A u \in DOMAIN users, c \in SUPPORTED_CURRENCIES :
             getBalanceInCurrency(u, c) = Ledger(Len(transactions), u, c)

\* C40: the asset whose price a sell fetches and settles at is the asset
\* recorded in coin_id of the holding it sells from.
C40_SellAtHoldingsAsset ==
  [][\A s \in Slots :
       (req[s].op = "sell" /\ req[s].pc = "price" /\ req'[s].pc = "credit")
         => req[s].coinId = req[s].holding.coin_id]_vars

====
